---------------------------- MODULE Spec2Model ----------------------------
(***************************************************************************)
(* Model of the einat control plane: the port-range algebra and the        *)
(* parsing of Externals, the runtime configuration builder,                *)
(* the reconciliation engine (RuntimeConfig::apply) with its quiescence    *)
(* protocol and stale-flow purge, the Instance lifecycle (load, attach,    *)
(* reconfigure, detach) and the orchestrator's startup, event loop and     *)
(* cleanup.                                                                *)
(*                                                                         *)
(* One address family (IPv4) of the generic RuntimeConfig trait is         *)
(* modelled; the IPv6 implementation is the same code.                     *)
(***************************************************************************)
EXTENDS Integers, Sequences, FiniteSets, TLC

(***************************************************************************)
(* Bounds of the model.                                                    *)
(***************************************************************************)
\* host addresses 1..MaxAddr may be assigned to the interface
MaxAddr == 2
\* at most MaxFaults kernel operations fail for external reasons in a run
MaxFaults == 1
\* at most MaxFlows binding/CT entries exist at a time
MaxFlows == 1
\* at most MaxEvents address-change events are delivered by the monitor
MaxEvents == 2
\* the Builder on its own is run with policies of up to MaxExternals Externals
MaxExternals == 3
\* raw port-range lists have up to MaxRaw ranges
MaxRaw == 5
\* the two lists given to contains have up to MaxPair ranges each
MaxPair == 2

(***************************************************************************)
(* Program constants.                                                      *)
(***************************************************************************)
\* width of a host prefix of the family (Ipv4Net::from_addr gives a /32)
HostLen == 32
\* skel::MAX_PORT_RANGES, the number of slots of a port-range array
MAX_PORT_RANGES == 4
\* the family of the modelled RuntimeConfig (BindingFlags::ADDR_IPV4)
ADDR_IPV4 == 4
\* the other family (BindingFlags::ADDR_IPV6)
ADDR_IPV6 == 6

(***************************************************************************)
(* Prefixes and prefix maps.                                               *)
(***************************************************************************)
\* IpNetwork::unspecified address of the family
Unspecified == 0

Addrs == 1..MaxAddr

Prefix(a, l) == [addr |-> a, len |-> l]

\* Ipv4Net::from_addr: the host-width prefix of an address
FromAddr(a) == Prefix(a, HostLen)

RECURSIVE Shr(_, _)
Shr(a, n) == IF n = 0 THEN a ELSE Shr(a \div 2, n - 1)

\* IpNet::contains(&IpAddr): the address lies within the prefix
NetContains(p, a) == Shr(a, HostLen - p.len) = Shr(p.addr, HostLen - p.len)

EmptyMap == [k \in {} |-> 0]

\* PrefixMap entry(k) assignment
MapPut(m, k, v) == [x \in (DOMAIN m) \cup {k} |-> IF x = k THEN v ELSE m[x]]

MapRemove(m, k) == [x \in (DOMAIN m) \ {k} |-> m[x]]

\* Minimum of a non-empty set of naturals
Min(S) == CHOOSE x \in S : \A y \in S : x <= y

\* PrefixSet::iter: host prefixes in ascending (lexicographic) order
RECURSIVE AscSeq(_)
AscSeq(S) == IF S = {} THEN <<>> ELSE <<Min(S)>> \o AscSeq(S \ {Min(S)})

RangeOfSeq(s) == {s[i] : i \in 1..Len(s)}

(***************************************************************************)
(* External policy entries (struct External) and data-plane values.        *)
(***************************************************************************)
\* AddressOrMatcher::Static { address }
Static(fam, a) == [kind |-> "Static", fam |-> fam, addr |-> a, len |-> HostLen]

\* AddressOrMatcher::Matcher { match_address }
Matcher(fam, a, l) == [kind |-> "Matcher", fam |-> fam, addr |-> a, len |-> l]

External(address, no_snat, no_hairpin, tcp, udp, icmp, icmp_in, icmp_out) ==
    [address |-> address, no_snat |-> no_snat, no_hairpin |-> no_hairpin,
     tcp_ranges |-> tcp, udp_ranges |-> udp, icmp_ranges |-> icmp,
     icmp_in_ranges |-> icmp_in, icmp_out_ranges |-> icmp_out]

\* BpfDestConfig::default(): no flag set
DefaultDestConfig == [no_snat |-> FALSE, hairpin |-> FALSE]

ZeroRanges == [i \in 1..MAX_PORT_RANGES |-> <<0, 0>>]

\* BpfExternalConfig::default(): zeroed
DefaultExternalConfig ==
    [no_snat |-> FALSE,
     tcp_range |-> ZeroRanges, tcp_range_len |-> 0,
     udp_range |-> ZeroRanges, udp_range_len |-> 0,
     icmp_range |-> ZeroRanges, icmp_range_len |-> 0,
     icmp_in_range |-> ZeroRanges, icmp_in_range_len |-> 0,
     icmp_out_range |-> ZeroRanges, icmp_out_range_len |-> 0]

\* ExternalRanges::apply_raw: the slots written from the list
ApplyRawRanges(ranges) ==
    [i \in 1..MAX_PORT_RANGES |-> IF i <= Len(ranges) THEN ranges[i] ELSE <<0, 0>>]

\* ExternalRanges::apply_raw: the length byte
ApplyRawLen(ranges) == Len(ranges)

(***************************************************************************)
(* Port ranges (sort_and_merge_ranges, ExternalRanges, External::try_from). *)
(* A range lo..=hi is the pair <<lo, hi>> of 16-bit values.  `overflow_checks` *)
(* is the build's setting for integer overflow: a u16 addition that        *)
(* overflows panics when it is on and wraps when it is off.                *)
(***************************************************************************)
\* the number of u16 values
U16 == 65536

\* RangeInclusive::is_empty
IsEmptyRange(range) == ~(range[1] <= range[2])

\* slice::sort_by_key(|range| *range.start()), a stable sort: a range goes
\* behind the ranges whose start is not greater than its own
RECURSIVE SortByStart(_)
SortByStart(ranges) ==
    IF ranges = <<>> THEN <<>>
    ELSE LET sorted == SortByStart(SubSeq(ranges, 1, Len(ranges) - 1))
             x == ranges[Len(ranges)]
             n == Cardinality({i \in 1..Len(sorted) : sorted[i][1] <= x[1]})
         IN SubSeq(sorted, 1, n) \o <<x>> \o SubSeq(sorted, n + 1, Len(sorted))

\* the loop of sort_and_merge_ranges from ranges[i] on
RECURSIVE MergeLoop(_, _, _, _, _)
MergeLoop(ranges, i, curr, merged, overflow_checks) ==
    IF i > Len(ranges) THEN [panic |-> FALSE, ranges |-> Append(merged, curr)]
    ELSE LET next == ranges[i] IN
         IF curr[2] + 1 >= U16 /\ overflow_checks
         THEN [panic |-> TRUE, ranges |-> <<>>]
         ELSE IF next[1] > (curr[2] + 1) % U16
         THEN MergeLoop(ranges, i + 1, next, Append(merged, curr),
                        overflow_checks)
         ELSE IF next[2] > curr[2]
         THEN MergeLoop(ranges, i + 1, <<curr[1], next[2]>>, merged,
                        overflow_checks)
         ELSE MergeLoop(ranges, i + 1, curr, merged, overflow_checks)

\* sort_and_merge_ranges
SortAndMergeRanges(ranges, overflow_checks) ==
    LET sorted == SortByStart(SelectSeq(ranges,
                                        LAMBDA range : ~IsEmptyRange(range)))
    IN IF Len(sorted) < 2 THEN [panic |-> FALSE, ranges |-> sorted]
       ELSE MergeLoop(sorted, 2, sorted[1], <<>>, overflow_checks)

\* ExternalRanges::try_from
ExternalRangesTryFrom(ranges, allow_zero, overflow_checks) ==
    IF \E i \in 1..Len(ranges) : ~allow_zero /\ ranges[i][1] = 0
    THEN [kind |-> "err", err |-> "contains zero"]
    ELSE LET merged == SortAndMergeRanges(ranges, overflow_checks) IN
         IF merged.panic THEN [kind |-> "panic"]
         ELSE IF Len(merged.ranges) > MAX_PORT_RANGES
         THEN [kind |-> "err", err |-> "exceed limit"]
         ELSE [kind |-> "ok", ranges |-> merged.ranges]

\* a walk that never compares the ends
RECURSIVE ContainsWalkStartsOnly(_, _, _, _)
ContainsWalkStartsOnly(this, i, other, j) ==
    IF i > Len(this) THEN j > Len(other)
    ELSE IF j > Len(other) THEN ContainsWalkStartsOnly(this, i + 1, other, j)
    ELSE IF other[j][1] < this[i][1] THEN FALSE
    ELSE IF other[j][1] > this[i][2]
    THEN ContainsWalkStartsOnly(this, i + 1, other, j)
    ELSE ContainsWalkStartsOnly(this, i, other, j + 1)

\* the walk of ExternalRanges::contains over the two normalized lists, at
\* this[i] with other_it.peek() = other[j]
RECURSIVE ContainsWalk(_, _, _, _)
ContainsWalk(this, i, other, j) ==
    IF i > Len(this) THEN j > Len(other)
    ELSE IF j > Len(other) THEN ContainsWalk(this, i + 1, other, j)
    ELSE IF other[j][1] < this[i][1] THEN FALSE
    ELSE IF other[j][1] > this[i][2] THEN ContainsWalk(this, i + 1, other, j)
    ELSE IF other[j][2] > this[i][2] THEN FALSE
    ELSE ContainsWalk(this, i, other, j + 1)

\* ExternalRanges::contains
Contains(self, other, overflow_checks) ==
    LET this == SortAndMergeRanges(self, overflow_checks)
        that == SortAndMergeRanges(other, overflow_checks)
    IN IF this.panic \/ that.panic THEN [panic |-> TRUE, value |-> FALSE]
       ELSE [panic |-> FALSE,
             value |-> ContainsWalk(this.ranges, 1, that.ranges, 1)]

\* Option<Vec<ProtoRange>> of a ConfigExternal
None == [some |-> FALSE, val |-> <<>>]
Some(ranges) == [some |-> TRUE, val |-> ranges]
UnwrapOr(opt, default) == IF opt.some THEN opt.val ELSE default

\* External::try_from
ExternalTryFrom(external, defaults, overflow_checks) ==
    LET tcp_ranges ==
            ExternalRangesTryFrom(
                UnwrapOr(external.tcp_ranges, defaults.tcp_ranges), FALSE,
                overflow_checks)
        udp_ranges ==
            ExternalRangesTryFrom(
                UnwrapOr(external.udp_ranges, defaults.udp_ranges), FALSE,
                overflow_checks)
        icmp_ranges ==
            ExternalRangesTryFrom(
                UnwrapOr(external.icmp_ranges, defaults.icmp_ranges), TRUE,
                overflow_checks)
        icmp_in_ranges ==
            IF icmp_ranges.ranges = <<>> THEN [kind |-> "ok", ranges |-> <<>>]
            ELSE ExternalRangesTryFrom(
                     UnwrapOr(external.icmp_in_ranges, defaults.icmp_in_ranges),
                     TRUE, overflow_checks)
        icmp_out_ranges ==
            IF icmp_ranges.ranges = <<>> THEN [kind |-> "ok", ranges |-> <<>>]
            ELSE ExternalRangesTryFrom(
                     UnwrapOr(external.icmp_out_ranges,
                              defaults.icmp_out_ranges),
                     TRUE, overflow_checks)
        in_contained ==
            Contains(icmp_ranges.ranges, icmp_in_ranges.ranges, overflow_checks)
        out_contained ==
            Contains(icmp_ranges.ranges, icmp_out_ranges.ranges,
                     overflow_checks)
    IN IF tcp_ranges.kind # "ok" THEN tcp_ranges
       ELSE IF udp_ranges.kind # "ok" THEN udp_ranges
       ELSE IF icmp_ranges.kind # "ok" THEN icmp_ranges
       ELSE IF icmp_in_ranges.kind # "ok" THEN icmp_in_ranges
       ELSE IF icmp_out_ranges.kind # "ok" THEN icmp_out_ranges
       ELSE IF in_contained.panic THEN [kind |-> "panic"]
       ELSE IF ~in_contained.value
       THEN [kind |-> "err", err |-> "not fully include ICMP inbound ranges"]
       ELSE IF out_contained.panic THEN [kind |-> "panic"]
       ELSE IF ~out_contained.value
       THEN [kind |-> "err", err |-> "not fully include ICMP outbound ranges"]
       ELSE [kind |-> "ok",
             external |-> External(external.address, external.no_snat,
                                   external.no_hairpin, tcp_ranges.ranges,
                                   udp_ranges.ranges, icmp_ranges.ranges,
                                   icmp_in_ranges.ranges,
                                   icmp_out_ranges.ranges)]

(***************************************************************************)
(* Runtime configuration builder (RuntimeConfig::init).                    *)
(***************************************************************************)
\* Step 1: no-snat destinations get NO_SNAT in dest_config
RECURSIVE InitNoSnatDests(_, _)
InitNoSnatDests(dest_config, no_snat_dests) ==
    IF no_snat_dests = <<>> THEN dest_config
    ELSE LET network == Head(no_snat_dests)
             dest_value == IF network \in DOMAIN dest_config
                           THEN dest_config[network] ELSE DefaultDestConfig
         IN InitNoSnatDests(MapPut(dest_config, network,
                                   [dest_value EXCEPT !.no_snat = TRUE]),
                            Tail(no_snat_dests))

\* the addresses an External claims, in order
InitMatches(external, addresses_set) ==
    IF external.address.kind = "Static"
    THEN IF external.address.fam = ADDR_IPV4 /\ external.address.addr # Unspecified
         THEN <<FromAddr(external.address.addr)>>
         ELSE <<>>
    ELSE LET hit == {a \in addresses_set :
                        /\ external.address.fam = ADDR_IPV4
                        /\ NetContains(external.address, a)
                        /\ a # Unspecified}
             asc == AscSeq(hit)
         IN [i \in 1..Len(asc) |-> FromAddr(asc[i])]

\* the entry written for one matched prefix (lines 367-399)
InitExternalValue(external, old_value) ==
    IF external.no_snat
    THEN [old_value EXCEPT !.no_snat = TRUE]
    ELSE [no_snat |-> FALSE,
          tcp_range |-> ApplyRawRanges(external.tcp_ranges),
          tcp_range_len |-> ApplyRawLen(external.tcp_ranges),
          udp_range |-> ApplyRawRanges(external.udp_ranges),
          udp_range_len |-> ApplyRawLen(external.udp_ranges),
          icmp_range |-> ApplyRawRanges(external.icmp_ranges),
          icmp_range_len |-> ApplyRawLen(external.icmp_ranges),
          icmp_in_range |-> ApplyRawRanges(external.icmp_in_ranges),
          icmp_in_range_len |-> ApplyRawLen(external.icmp_in_ranges),
          icmp_out_range |-> ApplyRawRanges(external.icmp_out_ranges),
          icmp_out_range_len |-> ApplyRawLen(external.icmp_out_ranges)]

\* the external-config entry written, the dest-config entry left out
InitMatchNoDest(cfg, external, network) ==
    LET ext_value == IF network \in DOMAIN cfg.external_config
                     THEN cfg.external_config[network]
                     ELSE DefaultExternalConfig
    IN [cfg EXCEPT !.external_config =
                       MapPut(@, network, InitExternalValue(external, ext_value))]

\* lines 367-399, one matched prefix: its dest-config entry gets HAIRPIN,
\* its external-config entry is written
InitMatch(cfg, external, network) ==
    LET dest_value == IF network \in DOMAIN cfg.dest_config
                      THEN cfg.dest_config[network] ELSE DefaultDestConfig
        ext_value == IF network \in DOMAIN cfg.external_config
                     THEN cfg.external_config[network]
                     ELSE DefaultExternalConfig
    IN [cfg EXCEPT
           !.dest_config = MapPut(@, network,
               [dest_value EXCEPT !.hairpin = ~external.no_hairpin]),
           !.external_config = MapPut(@, network,
               InitExternalValue(external, ext_value))]

RECURSIVE InitMatched(_, _, _)
InitMatched(cfg, external, matches) ==
    IF matches = <<>> THEN cfg
    ELSE InitMatched(InitMatch(cfg, external, Head(matches)), external,
                     Tail(matches))

\* the address of every External that is not no_snat taken in turn
InitExternalAddrLast(external_addr, external, matches) ==
    IF ~external.no_snat /\ matches # <<>>
    THEN <<matches[1]>> ELSE external_addr

\* lines 361-365: the first match of the first External that is not
\* no_snat and matched anything
InitExternalAddr(external_addr, external, matches) ==
    IF external_addr = <<>> /\ ~external.no_snat /\ matches # <<>>
    THEN <<matches[1]>> ELSE external_addr

\* the loop over externals; st.external_addr is an Option (<<>> is None)
RECURSIVE InitExternals(_, _)
InitExternals(st, externals) ==
    IF externals = <<>> THEN st
    ELSE LET external == Head(externals)
             matches == InitMatches(external, st.addresses_set)
             claimed == {m.addr : m \in RangeOfSeq(matches)}
             external_addr ==
                 InitExternalAddr(st.external_addr, external, matches)
             cfg == InitMatched(st.cfg, external, matches)
         IN InitExternals([cfg |-> cfg,
                           addresses_set |-> st.addresses_set \ claimed,
                           external_addr |-> external_addr],
                          Tail(externals))

\* RuntimeV4Config::from followed by RuntimeConfig::init
RuntimeConfigFrom(no_snat_dests, externals, addresses) ==
    LET st0 == [cfg |-> [dest_config |-> InitNoSnatDests(EmptyMap, no_snat_dests),
                         external_config |-> EmptyMap],
                addresses_set |-> addresses,
                external_addr |-> <<>>]
        st == InitExternals(st0, externals)
    IN [external_addr |-> IF st.external_addr = <<>>
                          THEN FromAddr(Unspecified) ELSE st.external_addr[1],
        dest_config |-> st.cfg.dest_config,
        external_config |-> st.cfg.external_config]

(***************************************************************************)
(* Prefix-map diff (utils::PrefixMapDiff): the set of changes between two  *)
(* prefix maps; a change carries its key, its value is new[k].             *)
(***************************************************************************)
MapChange(op, k) == [op |-> op, k |-> k]

PrefixMapDiff(old, new) ==
    {MapChange("Insert", k) : k \in (DOMAIN new) \ (DOMAIN old)}
    \cup {MapChange("Delete", k) : k \in (DOMAIN old) \ (DOMAIN new)}
    \cup {MapChange("Update", k) :
            k \in {x \in (DOMAIN old) \cap (DOMAIN new) : old[x] # new[x]}}

(***************************************************************************)
(* Policies and addresses the model is run with.                           *)
(***************************************************************************)
RangesA == <<<<1000, 2000>>>>
RangesB == <<<<1500, 2000>>, <<3000, 3000>>>>
IcmpAll == <<<<0, 65535>>>>

\* match-any IPv4 External (ConfigExternal::match_any_ipv4)
ExtMatchAny ==
    External(Matcher(ADDR_IPV4, 0, 0), FALSE, FALSE,
             RangesA, RangesA, IcmpAll, IcmpAll, IcmpAll)
\* host address 1 excluded from source NAT, no hairpin
ExtStaticNoSnat ==
    External(Static(ADDR_IPV4, 1), TRUE, TRUE, <<>>, <<>>, <<>>, <<>>, <<>>)
\* host address 1 with its own port pool
ExtStatic ==
    External(Static(ADDR_IPV4, 1), FALSE, TRUE,
             RangesB, RangesB, <<>>, <<>>, <<>>)
\* an IPv6 External: never matches in the IPv4 runtime configuration
ExtStaticV6 ==
    External(Static(ADDR_IPV6, 1), FALSE, FALSE,
             RangesA, RangesA, IcmpAll, IcmpAll, IcmpAll)

ExternalsChoices ==
    { <<ExtMatchAny>>,
      <<ExtMatchAny, ExtStaticNoSnat>>,
      <<ExtStatic, ExtStaticV6, ExtMatchAny>>,
      <<ExtStatic>> }

\* a Matcher for the network of address 2
ExtMatchTwo ==
    External(Matcher(ADDR_IPV4, 2, HostLen - 1), FALSE, FALSE,
             RangesB, RangesB, IcmpAll, IcmpAll, IcmpAll)
\* every address of the interface excluded from source NAT
ExtMatchNoSnat ==
    External(Matcher(ADDR_IPV4, 0, 0), TRUE, FALSE, <<>>, <<>>, <<>>, <<>>, <<>>)

\* host address 2 with the port pool of the match-any External
ExtStaticTwo ==
    External(Static(ADDR_IPV4, 2), FALSE, FALSE,
             RangesA, RangesA, IcmpAll, IcmpAll, IcmpAll)

\* ConfigDefaults with every ICMP identifier
Defaults ==
    [tcp_ranges |-> RangesA, udp_ranges |-> RangesA, icmp_ranges |-> IcmpAll,
     icmp_in_ranges |-> IcmpAll, icmp_out_ranges |-> IcmpAll]

\* what External::try_from returns, in a build without overflow checks, for
\* host address 2 with tcp ports 1000-65535 and 1500-2000
ExtStaticWrapped ==
    ExternalTryFrom(
        [address |-> Static(ADDR_IPV4, 2), no_snat |-> FALSE,
         no_hairpin |-> FALSE,
         tcp_ranges |-> Some(<<<<1000, U16 - 1>>, <<1500, 2000>>>>),
         udp_ranges |-> None, icmp_ranges |-> None, icmp_in_ranges |-> None,
         icmp_out_ranges |-> None],
        Defaults, FALSE).external

\* the Externals the Builder is run with on its own
BuilderShapes ==
    {ExtMatchAny, ExtStaticNoSnat, ExtStatic, ExtStaticV6, ExtMatchTwo,
     ExtMatchNoSnat, ExtStaticTwo, ExtStaticWrapped}

\* the policies the Builder is run with on its own: every list of up to
\* MaxExternals of these Externals
BuilderExternals ==
    UNION {[1..n -> BuilderShapes] : n \in 1..MaxExternals}

\* a network and a host address exempt from source NAT
NoSnatDestsChoices == { <<Prefix(2, HostLen - 1), FromAddr(2)>> }

AddressSets == SUBSET Addrs

(***************************************************************************)
(* Binding and connection-tracking entries (owned by the data plane).      *)
(***************************************************************************)
\* an address of the internal network, never an external address
InternalAddr == MaxAddr + 1

Families == {ADDR_IPV4, ADDR_IPV6}

\* MapBindingKey {flags: ORIG_DIR | family, from_addr},
\* MapBindingValue {flags: family, to_addr}
BindingEntry(orig, fam, from_addr, to_addr) ==
    [orig |-> orig, kfam |-> fam, from_addr |-> from_addr,
     vfam |-> fam, to_addr |-> to_addr]

\* MapCtKey {flags: family, external.src_addr}
CtEntry(fam, src_addr) == [fam |-> fam, src_addr |-> src_addr]

\* the entries a flow through external address a creates
FlowBindings(fam, a) ==
    { BindingEntry(TRUE, fam, InternalAddr, a),
      BindingEntry(FALSE, fam, a, InternalAddr) }

\* the external address a binding entry belongs to
BindingExternal(b) == IF b.orig THEN [fam |-> b.vfam, addr |-> b.to_addr]
                      ELSE [fam |-> b.kfam, addr |-> b.from_addr]

(***************************************************************************)
(* State.                                                                  *)
(***************************************************************************)
VARIABLES
    externals,              \* InstanceConfig.externals
    no_snat_dests,          \* InstanceConfig.v4_no_snat_dests
    runtime_v4_config,      \* InstanceConfig.runtime_v4_config
    inst,                   \* "config", "loading", "loading_v6", "loaded" or
                            \* "load_failed"
    map_dest_config,        \* kernel map ipv4_dest_config
    map_external_config,    \* kernel map ipv4_external_config
    g_ipv4_external_addr,   \* data-plane scalar
    g_deleting_map_entries, \* data-plane quiescence flag
    map_binding,            \* kernel map binding
    map_ct,                 \* kernel map ct
    inflight,               \* entries of data-plane invocations in flight
    pc,                     \* position of the control plane inside apply
    new,                    \* apply: self
    old,                    \* apply: old (<<>> is None)
    dest_changes,           \* apply: dest-config changes not yet handled
    ext_changes,            \* apply: external-config changes not yet handled
    change,                 \* the change of the open guarded region
    res,                    \* with_skel_deleting: result of the closure
    to_delete,              \* remove_binding_and_ct_entries: collected keys
    ret,                    \* result of the last apply: "none", "ok", "err"
    faults,                 \* kernel operations failed for external reasons
    trace,                  \* operations issued by the current/last apply
    call,                   \* what held when the current/last apply was entered
    daemon,                 \* orchestrator: "api", "hooks", "startup", "monitor",
                            \* "handling", "exit" or "done"
    addresses,              \* IfContext.addresses.ipv4
    new_addresses,          \* monitor: new_addresses.ipv4
    events,                 \* address-change events delivered
    attached_ingress_hook,  \* Instance.attached_ingress_hook is Some
    attached_egress_hook,   \* Instance.attached_egress_hook is Some
    tc_ingress,             \* the ingress program is attached to the interface
    tc_egress,              \* the egress program is attached to the interface
    hook_call,              \* the last attach / detach / IfContext::detach call
    hairpin,                \* hairpin routing is enabled in the configuration
    hairpin_routing,        \* families whose IfContext hairpin routing is Some
    ctx,                    \* the interface's entry of contexts
    peer,                   \* the entry of a second configured interface
    life,                   \* the steps of InstanceConfig::load taken so far
    v6_differs,             \* monitor: the queried v6 list differs
    v6_ret,                 \* monitor: result of reconfigure_v6_addresses
    dests,                  \* the last result of v4_hairpin_dests()
    range_call,             \* a call of the port-range functions: its inputs
    range_ret               \* what that call returned

rangeVars == <<range_call, range_ret>>
\* what the operations of a loaded Instance never write
policyVars == <<externals, no_snat_dests, hairpin, rangeVars, dests>>
configVars == <<map_dest_config, map_external_config>>
kernelVars == <<map_dest_config, map_external_config, g_ipv4_external_addr,
                g_deleting_map_entries>>
flowVars == <<map_binding, map_ct, inflight>>
applyVars == <<new, old, call, dest_changes, ext_changes, change, res,
              to_delete>>
callerVars == <<runtime_v4_config, inst, ret, daemon, addresses>>
tcVars == <<attached_ingress_hook, attached_egress_hook, tc_ingress,
            tc_egress, hook_call, hairpin_routing>>
hookVars == <<tcVars, ctx, peer>>
stepVars == <<life, v6_differs, v6_ret>>
vars == <<externals, no_snat_dests, runtime_v4_config, inst, map_dest_config,
          map_external_config, g_ipv4_external_addr, g_deleting_map_entries,
          map_binding, map_ct, inflight, pc, new, old, dest_changes,
          ext_changes, change, res, to_delete, ret, faults, trace, call, daemon,
          addresses, new_addresses, events, attached_ingress_hook,
          attached_egress_hook, tc_ingress, tc_egress, hook_call, hairpin,
          hairpin_routing, ctx, peer, life, v6_differs, v6_ret, dests,
          range_call, range_ret>>

\* no hook call was made yet
NoCall == [call |-> "none", ops |-> <<>>, ret |-> "none", cleanup |-> <<>>]

EmptyConfig ==
    [external_addr |-> FromAddr(Unspecified), dest_config |-> EmptyMap,
     external_config |-> EmptyMap]

\* hairpin_dests was not called yet
NoDests == [called |-> FALSE, res |-> <<>>]

\* no port-range function is being called
NoRangeCall == [fn |-> "none"]
NoRangeRet == [kind |-> "none"]

\* the Instance's own state after InstanceConfig::try_from with the given
\* externals, before load
InstanceState ==
    /\ no_snat_dests \in NoSnatDestsChoices
    /\ addresses \in AddressSets
    /\ runtime_v4_config = RuntimeConfigFrom(no_snat_dests, externals, addresses)
    /\ inst = "config"
    /\ map_dest_config = EmptyMap
    /\ map_external_config = EmptyMap
    /\ g_ipv4_external_addr = Unspecified
    /\ g_deleting_map_entries = 0
    /\ map_binding = {}
    /\ map_ct = {}
    /\ inflight = {}
    /\ pc = "idle"
    /\ new = EmptyConfig
    /\ old = <<>>
    /\ dest_changes = {}
    /\ ext_changes = {}
    /\ change = <<>>
    /\ res = "ok"
    /\ to_delete = {}
    /\ ret = "none"
    /\ faults = 0
    /\ trace = <<>>
    /\ call = [in_sync |-> TRUE, retry |-> FALSE, after_load |-> FALSE,
               faults0 |-> 0]
    /\ new_addresses = addresses
    /\ events = 0
    /\ attached_ingress_hook = FALSE
    /\ attached_egress_hook = FALSE
    /\ tc_ingress = FALSE
    /\ tc_egress = FALSE
    /\ hook_call = NoCall
    /\ hairpin_routing = {}
    /\ ctx = "none"
    /\ life = <<>>
    /\ v6_differs = FALSE
    /\ v6_ret = "none"
    /\ dests = NoDests

InitState ==
    /\ InstanceState
    /\ range_call = NoRangeCall
    /\ range_ret = NoRangeRet

InitCommon ==
    /\ externals \in ExternalsChoices
    /\ InitState

\* the configurations of the daemon: one interface without hairpin routing,
\* or two interfaces with hairpin routing enabled for both families
DaemonChoices == {<<FALSE, "none">>, <<TRUE, "pending">>}

\* the Builder on its own: RuntimeV4Config::from called by try_from
InitBuilder ==
    /\ externals \in BuilderExternals
    /\ InitState
    /\ daemon = "builder"
    /\ hairpin = FALSE
    /\ peer = "none"

\* the Instance used through its public methods by any caller
Init == InitCommon /\ daemon = "api" /\ hairpin = FALSE /\ peer = "none"

\* the Instance used through load, attach and detach by any caller
InitHooks == InitCommon /\ daemon = "hooks" /\ hairpin = FALSE /\ peer = "none"

\* the Instance driven by main.rs, alone or beside a second interface
InitDaemon ==
    /\ InitCommon
    /\ daemon = "startup"
    /\ \E c \in DaemonChoices : hairpin = c[1] /\ peer = c[2]

(***************************************************************************)
(* Kernel map operations (libbpf_rs::Map::update / delete).                *)
(***************************************************************************)
\* whether update(k, v, flags) succeeds on map m
MapUpdateOk(m, k, flags) ==
    CASE flags = "ANY" -> TRUE
      [] flags = "NO_EXIST" -> k \notin DOMAIN m
      [] flags = "EXIST" -> k \in DOMAIN m

\* whether delete(k) succeeds on map m (ENOENT otherwise)
MapDeleteOk(m, k) == k \in DOMAIN m

\* flags of the dest-config Insert/Update (line 442)
DestUpdateFlags == "ANY"
\* the Insert issued with overwrite semantics
ExternalInsertFlagsAny == "ANY"

\* flags of the external-config Insert (line 461)
ExternalInsertFlags == "NO_EXIST"
\* flags of the external-config Update (line 473)
ExternalUpdateFlags == "EXIST"

Log(op, k, ok) == [op |-> op, k |-> k, ok |-> ok]

(***************************************************************************)
(* RuntimeConfig::apply, one kernel operation per step.                    *)
(***************************************************************************)
\* the external loop run before the dest loop
NextPcExternalFirst(dest_left, ext_left) ==
    IF ext_left # {} THEN "ext"
    ELSE IF dest_left # {} THEN "dest" ELSE "finish"

\* what apply does next: the dest loop, the external loop, or lines 504-527
NextPc(dest_left, ext_left) ==
    IF dest_left # {} THEN "dest"
    ELSE IF ext_left # {} THEN "ext" ELSE "finish"

\* the changes apply walks: the diff against old, or inserts of every entry
DestChanges(o, n) ==
    IF o # <<>> THEN PrefixMapDiff(o[1].dest_config, n.dest_config)
    ELSE {MapChange("Insert", k) : k \in DOMAIN n.dest_config}

ExternalChanges(o, n) ==
    IF o # <<>> THEN PrefixMapDiff(o[1].external_config, n.external_config)
    ELSE {MapChange("Insert", k) : k \in DOMAIN n.external_config}

\* the scalar rewritten by every apply
WritesExternalAddrAlways(o, n) == TRUE

\* the scalar written by the first apply alone
WritesExternalAddrFirstOnly(o, n) == o = <<>>

\* whether apply writes the primary-external scalar (lines 504, 524)
WritesExternalAddr(o, n) == o = <<>> \/ o[1].external_addr # n.external_addr

\* the kernel maps hold exactly the entries of the previous configuration
\* (none when there is no previous configuration)
KernelHolds(o, kdest, kext) ==
    IF o = <<>> THEN kdest = EmptyMap /\ kext = EmptyMap
    ELSE kdest = o[1].dest_config /\ kext = o[1].external_config

\* entry of apply(old, skel) on configuration n; call records, for the
\* properties below, whether the kernel maps matched old, whether the
\* previous apply failed on the same target, and whether the previous apply
\* was the first apply of the same configuration
StartApply(o, n) ==
    /\ new' = n
    /\ old' = o
    /\ dest_changes' = DestChanges(o, n)
    /\ ext_changes' = ExternalChanges(o, n)
    /\ pc' = NextPc(DestChanges(o, n), ExternalChanges(o, n))
    /\ change' = <<>>
    /\ res' = "ok"
    /\ to_delete' = {}
    /\ ret' = "none"
    /\ trace' = <<>>
    /\ call' = [in_sync |-> KernelHolds(o, map_dest_config, map_external_config),
                retry |-> (ret = "err" /\ new = n),
                after_load |-> (ret = "ok" /\ old = <<>> /\ new = n),
                faults0 |-> faults]

\* the new configuration stored whatever apply returned
StoredAfterApplyAlways(r, stored, n) == n

\* reconfigure_v4_addresses, lines 812-813: the ? returns before the store
StoredAfterApply(r, stored, n) == IF r = "ok" THEN n ELSE stored

\* apply returns r to load / reconfigure_v4_addresses, which return to
\* their caller: load goes on to the v6 configuration only on success
\* (line 789), reconfigure stores the new configuration only on success
\* (lines 812-813), the monitor stores the addresses only on success and ends
\* the event loop on an error (main.rs lines 284-285), a failed load ends the
\* startup (main.rs line 177)
Return(r) ==
    /\ pc' = "idle"
    /\ ret' = r
    /\ inst' = IF inst = "loading"
               THEN (IF r = "ok" THEN "loading_v6" ELSE "load_failed")
               ELSE inst
    /\ runtime_v4_config' =
           IF inst = "loaded" THEN StoredAfterApply(r, runtime_v4_config, new)
           ELSE runtime_v4_config
    /\ addresses' =
           IF inst = "loaded" /\ r = "ok" /\ daemon = "handling"
           THEN new_addresses ELSE addresses
    /\ daemon' = IF r = "err" /\ daemon \in {"startup", "handling"}
                 THEN "exit" ELSE daemon

\* the ConstConfig written into the skeleton after it was loaded
LoadStepsConstAfterLoad == <<"open", "load", "const", "apply_v4">>

\* InstanceConfig::load, lines 781-789, in program order: open the skeleton,
\* apply the ConstConfig, load the skeleton, first-apply the v4 configuration
LoadSteps == <<"open", "const", "load", "apply_v4">>

\* the steps that can fail before a map is touched (the two ? of lines 783, 788)
LoadFailures == {"open", "load"}

\* the steps load has taken when step failing returned an error
LoadStepsUntil(failing) ==
    IF failing = "none" THEN LoadSteps
    ELSE SubSeq(LoadSteps, 1,
                CHOOSE i \in 1..Len(LoadSteps) : LoadSteps[i] = failing)

\* InstanceConfig::load up to the first apply, no previous configuration
Load ==
    /\ inst = "config"
    /\ pc = "idle"
    /\ \E failing \in {"none"} \cup LoadFailures :
          /\ failing # "none" => faults < MaxFaults
          /\ life' = LoadStepsUntil(failing)
          /\ IF failing = "none"
             THEN /\ inst' = "loading"
                  /\ StartApply(<<>>, runtime_v4_config)
                  /\ UNCHANGED <<faults, daemon>>
             ELSE /\ inst' = "load_failed"
                  /\ ret' = "err"
                  /\ faults' = faults + 1
                  /\ daemon' = IF daemon = "startup" THEN "exit" ELSE daemon
                  /\ UNCHANGED <<applyVars, pc, trace>>
    /\ UNCHANGED <<policyVars, kernelVars, flowVars, hookVars,
                   runtime_v4_config, addresses, new_addresses, events,
                   v6_differs, v6_ret>>

\* InstanceConfig::load, lines 790-791: the first apply of the v6
\* configuration, taken as one step; on success the Instance exists and the
\* daemon inserts it into contexts (main.rs lines 176-179)
LoadV6 ==
    /\ inst = "loading_v6"
    /\ pc = "idle"
    /\ life' = Append(life, "apply_v6")
    /\ \E ok \in BOOLEAN :
          /\ ~ok => faults < MaxFaults
          /\ faults' = IF ok THEN faults ELSE faults + 1
          /\ inst' = IF ok THEN "loaded" ELSE "load_failed"
          /\ ctx' = IF ok /\ daemon = "startup" THEN "loaded" ELSE ctx
          /\ daemon' = IF ~ok /\ daemon = "startup" THEN "exit" ELSE daemon
    /\ UNCHANGED <<policyVars, kernelVars, flowVars, tcVars, peer, applyVars, pc,
                   runtime_v4_config, ret, addresses, new_addresses, events,
                   trace, v6_differs, v6_ret>>

\* Instance::reconfigure_v4_addresses called by any user of the Instance
Reconfigure ==
    /\ daemon = "api"
    /\ inst = "loaded"
    /\ pc = "idle"
    /\ \E addrs \in AddressSets :
          /\ new_addresses' = addrs
          /\ StartApply(<<runtime_v4_config>>,
                        RuntimeConfigFrom(no_snat_dests, externals, addrs))
    /\ UNCHANGED <<policyVars, stepVars, kernelVars, flowVars, hookVars, runtime_v4_config,
                   inst, daemon, addresses, events, faults>>

\* handle_dest_change (lines 435-451)
HandleDestChange ==
    /\ pc = "dest"
    /\ \E c \in dest_changes, fault \in BOOLEAN :
          LET isdel == c.op = "Delete"
              can == IF isdel THEN MapDeleteOk(map_dest_config, c.k)
                     ELSE MapUpdateOk(map_dest_config, c.k, DestUpdateFlags)
              ok == can /\ ~fault
          IN /\ fault => (can /\ faults < MaxFaults)
             /\ faults' = IF fault THEN faults + 1 ELSE faults
             /\ trace' = Append(trace,
                    Log(IF isdel THEN "dest_delete" ELSE "dest_update", c.k, ok))
             /\ IF ok
                THEN /\ map_dest_config' =
                          IF isdel THEN MapRemove(map_dest_config, c.k)
                          ELSE MapPut(map_dest_config, c.k, new.dest_config[c.k])
                     /\ dest_changes' = dest_changes \ {c}
                     /\ pc' = NextPc(dest_changes \ {c}, ext_changes)
                     /\ UNCHANGED callerVars
                ELSE /\ UNCHANGED <<map_dest_config, dest_changes>>
                     /\ Return("err")
    /\ UNCHANGED <<policyVars, stepVars, map_external_config, g_ipv4_external_addr,
                   g_deleting_map_entries, flowVars, hookVars, new, old, call,
                   ext_changes, change, res, to_delete, new_addresses, events>>

\* handle_external_change, MapChange::Insert (lines 455-463)
HandleExternalInsert ==
    /\ pc = "ext"
    /\ \E c \in ext_changes, fault \in BOOLEAN :
          LET can == MapUpdateOk(map_external_config, c.k, ExternalInsertFlags)
              ok == can /\ ~fault
          IN /\ c.op = "Insert"
             /\ fault => (can /\ faults < MaxFaults)
             /\ faults' = IF fault THEN faults + 1 ELSE faults
             /\ trace' = Append(trace, Log("ext_insert", c.k, ok))
             /\ IF ok
                THEN /\ map_external_config' =
                          MapPut(map_external_config, c.k, new.external_config[c.k])
                     /\ ext_changes' = ext_changes \ {c}
                     /\ pc' = NextPc(dest_changes, ext_changes \ {c})
                     /\ UNCHANGED callerVars
                ELSE /\ UNCHANGED <<map_external_config, ext_changes>>
                     /\ Return("err")
    /\ UNCHANGED <<policyVars, stepVars, map_dest_config, g_ipv4_external_addr,
                   g_deleting_map_entries, flowVars, hookVars, new, old, call,
                   dest_changes, change, res, to_delete, new_addresses, events>>

(***************************************************************************)
(* The guarded region (with_skel_deleting) of an external-config Update    *)
(* or Delete.                                                              *)
(***************************************************************************)
\* the Update overwriting the entry without purging first
ClosureEntryPcWriteFirst(c) == IF c.op = "Update" THEN "ext_update" ELSE "ext_delete"

\* the Delete purging before (instead of after) the entry is removed
ClosureEntryPcPurgeFirst(c) == "binding_scan"

\* the first operation of the closure passed to with_skel_deleting:
\* Update purges first (line 468), Delete deletes the entry first (line 485)
ClosureEntryPc(c) == IF c.op = "Update" THEN "binding_scan" ELSE "ext_delete"

\* the Update ending after the purge, the entry left as it was
AfterPurgePcNoOverwrite(c) == "lower"

\* what follows remove_binding_and_ct_entries in the closure:
\* Update overwrites the entry (line 473), Delete is done (line 487)
AfterPurgePc(c) == IF c.op = "Update" THEN "ext_update" ELSE "lower"

\* with_skel_deleting, line 880: raise the quiescence flag
RaiseDeleting ==
    /\ pc = "ext"
    /\ \E c \in ext_changes :
          /\ c.op \in {"Update", "Delete"}
          /\ change' = <<c>>
          /\ trace' = Append(trace, Log("raise", c.k, TRUE))
    /\ g_deleting_map_entries' = 1
    /\ res' = "ok"
    /\ pc' = "sleep"
    /\ UNCHANGED <<policyVars, stepVars, configVars, g_ipv4_external_addr, flowVars,
                   hookVars, callerVars, new, old, call, dest_changes, ext_changes,
                   to_delete, new_addresses, events, faults>>

\* the closure entered without waiting
SleepElapsedNoWait == TRUE

\* the data-plane invocations that had not seen the raised flag have finished
SleepElapsed == inflight = {}

\* with_skel_deleting, lines 882-887: sleep, then enter the closure
Sleep ==
    /\ pc = "sleep"
    /\ SleepElapsed
    /\ pc' = ClosureEntryPc(change[1])
    /\ trace' = Append(trace, Log("sleep", change[1].k, TRUE))
    /\ UNCHANGED <<policyVars, stepVars, kernelVars, flowVars, hookVars, callerVars,
                   applyVars, new_addresses, events, faults>>

\* the purge run although the delete of the entry failed
AfterExternalDeletePcIgnoringError(ok) == "binding_scan"

\* line 485: the ? after the delete leaves the closure on an error
AfterExternalDeletePc(ok) == IF ok THEN "binding_scan" ELSE "lower"

\* MapChange::Delete, line 485: delete the external-config entry
ExternalDelete ==
    /\ pc = "ext_delete"
    /\ \E fault \in BOOLEAN :
          LET k == change[1].k
              can == MapDeleteOk(map_external_config, k)
              ok == can /\ ~fault
          IN /\ fault => (can /\ faults < MaxFaults)
             /\ faults' = IF fault THEN faults + 1 ELSE faults
             /\ trace' = Append(trace, Log("ext_delete", k, ok))
             /\ map_external_config' =
                    IF ok THEN MapRemove(map_external_config, k)
                    ELSE map_external_config
             /\ res' = IF ok THEN "ok" ELSE "err"
             /\ pc' = AfterExternalDeletePc(ok)
    /\ UNCHANGED <<policyVars, stepVars, map_dest_config, g_ipv4_external_addr,
                   g_deleting_map_entries, flowVars, hookVars, callerVars, new,
                   old, call, dest_changes, ext_changes, change, to_delete,
                   new_addresses, events>>

\* MapChange::Update, line 473: overwrite the external-config entry
ExternalUpdate ==
    /\ pc = "ext_update"
    /\ \E fault \in BOOLEAN :
          LET k == change[1].k
              can == MapUpdateOk(map_external_config, k, ExternalUpdateFlags)
              ok == can /\ ~fault
          IN /\ fault => (can /\ faults < MaxFaults)
             /\ faults' = IF fault THEN faults + 1 ELSE faults
             /\ trace' = Append(trace, Log("ext_update", k, ok))
             /\ map_external_config' =
                    IF ok THEN MapPut(map_external_config, k, new.external_config[k])
                    ELSE map_external_config
             /\ res' = IF ok THEN "ok" ELSE "err"
             /\ pc' = "lower"
    /\ UNCHANGED <<policyVars, stepVars, map_dest_config, g_ipv4_external_addr,
                   g_deleting_map_entries, flowVars, hookVars, callerVars, new,
                   old, call, dest_changes, ext_changes, change, to_delete,
                   new_addresses, events>>

\* the flag left raised when the closure failed
FlagAfterClosureOnSuccess(r) == IF r = "ok" THEN 0 ELSE 1

\* line 889: the flag value written after the closure, whatever its result r
FlagAfterClosure(r) == 0

\* with_skel_deleting, lines 889-891: lower the flag, return the closure's
\* result; an error ends apply (the ? of lines 477, 488, 502)
LowerDeleting ==
    /\ pc = "lower"
    /\ g_deleting_map_entries' = FlagAfterClosure(res)
    /\ trace' = Append(trace, Log("lower", change[1].k, TRUE))
    /\ change' = <<>>
    /\ IF res = "ok"
       THEN /\ ext_changes' = ext_changes \ {change[1]}
            /\ pc' = NextPc(dest_changes, ext_changes \ {change[1]})
            /\ UNCHANGED callerVars
       ELSE /\ UNCHANGED ext_changes
            /\ Return("err")
    /\ UNCHANGED <<policyVars, stepVars, configVars, g_ipv4_external_addr, flowVars,
                   hookVars, new, old, call, dest_changes, res, to_delete,
                   new_addresses, events, faults>>

(***************************************************************************)
(* Stale flow purge (remove_binding_and_ct_entries).                       *)
(***************************************************************************)
\* a collection that does not look at the family flags
BindingKeysToDeleteAnyFamily(bindings, addr_flag, a) ==
    {b \in bindings : IF b.orig THEN b.to_addr = a ELSE b.from_addr = a}

\* lines 909-922: the binding keys collected for external address a
BindingKeysToDelete(bindings, addr_flag, a) ==
    {b \in bindings :
        IF b.orig THEN b.vfam = addr_flag /\ b.to_addr = a
        ELSE b.kfam = addr_flag /\ b.from_addr = a}

\* lines 934-939: the CT keys collected for external address a
CtKeysToDelete(cts, addr_flag, a) ==
    {c \in cts : c.fam = addr_flag /\ c.src_addr = a}

\* lines 909-923: walk the binding map; a lookup of an original-direction
\* key may fail
BindingScan ==
    /\ pc = "binding_scan"
    /\ \E fault \in BOOLEAN :
          LET k == change[1].k
              can == \E b \in map_binding : b.orig
              keys == BindingKeysToDelete(map_binding, ADDR_IPV4, k.addr)
          IN /\ fault => (can /\ faults < MaxFaults)
             /\ faults' = IF fault THEN faults + 1 ELSE faults
             /\ trace' = Append(trace, Log("binding_scan", k, ~fault))
             /\ to_delete' = IF fault THEN {} ELSE keys
             /\ res' = IF fault THEN "err" ELSE "ok"
             /\ pc' = IF fault THEN "lower"
                      ELSE IF keys # {} THEN "binding_delete" ELSE "ct_scan"
    /\ UNCHANGED <<policyVars, stepVars, kernelVars, flowVars, hookVars, callerVars, new,
                   old, call, dest_changes, ext_changes, change, new_addresses, events>>

\* lines 924-931: bulk delete of the collected binding keys; a failed batch
\* may have deleted some of them
BindingDelete ==
    /\ pc = "binding_delete"
    /\ \E fault \in BOOLEAN :
          /\ fault => faults < MaxFaults
          /\ faults' = IF fault THEN faults + 1 ELSE faults
          /\ trace' = Append(trace, Log("binding_delete_batch", change[1].k, ~fault))
          /\ IF fault
             THEN \E done \in (SUBSET to_delete) \ {to_delete} :
                      map_binding' = map_binding \ done
             ELSE map_binding' = map_binding \ to_delete
          /\ res' = IF fault THEN "err" ELSE "ok"
          /\ pc' = IF fault THEN "lower" ELSE "ct_scan"
    /\ to_delete' = {}
    /\ UNCHANGED <<policyVars, stepVars, kernelVars, map_ct, inflight, hookVars,
                   callerVars, new, old, call, dest_changes, ext_changes, change,
                   new_addresses, events>>

\* lines 933-939: walk the CT map
CtScan ==
    /\ pc = "ct_scan"
    /\ LET k == change[1].k
           keys == CtKeysToDelete(map_ct, ADDR_IPV4, k.addr)
       IN /\ trace' = Append(trace, Log("ct_scan", k, TRUE))
          /\ to_delete' = keys
          /\ pc' = IF keys # {} THEN "ct_delete" ELSE AfterPurgePc(change[1])
    /\ UNCHANGED <<policyVars, stepVars, kernelVars, flowVars, hookVars, callerVars, new,
                   old, call, dest_changes, ext_changes, change, res, new_addresses,
                   events, faults>>

\* lines 941-948: bulk delete of the collected CT keys
CtDelete ==
    /\ pc = "ct_delete"
    /\ \E fault \in BOOLEAN :
          /\ fault => faults < MaxFaults
          /\ faults' = IF fault THEN faults + 1 ELSE faults
          /\ trace' = Append(trace, Log("ct_delete_batch", change[1].k, ~fault))
          /\ IF fault
             THEN \E done \in (SUBSET to_delete) \ {to_delete} :
                      map_ct' = map_ct \ done
             ELSE map_ct' = map_ct \ to_delete
          /\ res' = IF fault THEN "err" ELSE "ok"
          /\ pc' = IF fault THEN "lower" ELSE AfterPurgePc(change[1])
    /\ to_delete' = {}
    /\ UNCHANGED <<policyVars, stepVars, kernelVars, map_binding, inflight, hookVars,
                   callerVars, new, old, call, dest_changes, ext_changes, change,
                   new_addresses, events>>

\* lines 504-506 and 524-527: write the scalar if due, return Ok
Finish ==
    /\ pc = "finish"
    /\ IF WritesExternalAddr(old, new)
       THEN /\ g_ipv4_external_addr' = new.external_addr.addr
            /\ trace' = Append(trace, Log("scalar", new.external_addr, TRUE))
       ELSE UNCHANGED <<g_ipv4_external_addr, trace>>
    /\ Return("ok")
    /\ UNCHANGED <<policyVars, stepVars, configVars, g_deleting_map_entries, flowVars,
                   hookVars, applyVars, new_addresses, events, faults>>

(***************************************************************************)
(* The data plane, as far as the control plane relies on it: an invocation *)
(* reads the quiescence flag, and creates its binding or CT entry only if  *)
(* it read 0; the entry appears when the invocation finishes.              *)
(***************************************************************************)
DataPlaneRuns == inst = "loaded" /\ (daemon = "api" \/ tc_egress)

\* the external addresses (with family) that own some entry
FlowsOf(bindings, cts) ==
    {BindingExternal(b) : b \in bindings}
    \cup {[fam |-> c.fam, addr |-> c.src_addr] : c \in cts}

FlowCount == Cardinality(FlowsOf(map_binding, map_ct) \cup inflight)

\* an invocation for a new flow through external address a starts and
\* reads the flag
DpBegin ==
    /\ DataPlaneRuns
    /\ g_deleting_map_entries = 0
    /\ FlowCount < MaxFlows
    /\ \E fam \in Families, a \in Addrs :
          /\ [fam |-> fam, addr |-> a] \notin FlowsOf(map_binding, map_ct)
          /\ inflight' = inflight \cup {[fam |-> fam, addr |-> a]}
    /\ UNCHANGED <<policyVars, stepVars, kernelVars, map_binding, map_ct, hookVars,
                   callerVars, applyVars, pc, new_addresses, events, faults,
                   trace>>

\* the invocation finishes: the flow's bindings of both directions and its
\* CT entry are in the maps
DpCommit ==
    /\ \E f \in inflight :
          /\ inflight' = inflight \ {f}
          /\ map_binding' = map_binding \cup FlowBindings(f.fam, f.addr)
          /\ map_ct' = map_ct \cup {CtEntry(f.fam, f.addr)}
    /\ UNCHANGED <<policyVars, stepVars, kernelVars, hookVars, callerVars, applyVars, pc,
                   new_addresses, events, faults, trace>>

(***************************************************************************)
(* The orchestrator (main.rs): daemon and daemon_guard.                    *)
(***************************************************************************)
\* InstanceConfig::is_static
IsStatic(exts) == \A i \in 1..Len(exts) : exts[i].address.kind = "Static"

\* the two tc hooks of an Instance
Hooks == {"ingress", "egress"}

\* the hooks whose Option field is Some
SomeHooks ==
    {h \in Hooks : IF h = "ingress" THEN attached_ingress_hook
                   ELSE attached_egress_hook}

\* the hooks whose program is attached to the interface
TcHooks == {h \in Hooks : IF h = "ingress" THEN tc_ingress ELSE tc_egress}

HookOp(op, h, ok) == [op |-> op, hook |-> h, ok |-> ok]

\* Instance::attach, lines 862-863: the ingress hook, then the egress hook
AttachOrder == <<"ingress", "egress">>

\* Instance::detach, lines 868-873: the egress hook, then the ingress hook
DetachOrder == <<"egress", "ingress">>

\* Instance::attach over the remaining hooks: the field is assigned only
\* when create and attach succeeded, the ? returns at the first error
RECURSIVE AttachHooks(_, _, _)
AttachHooks(order, st, failing) ==
    IF order = <<>> \/ ~st.ok THEN st
    ELSE LET h == Head(order)
             good == h \notin failing
         IN AttachHooks(Tail(order),
                        [some |-> IF good THEN st.some \cup {h} ELSE st.some,
                         tc |-> IF good THEN st.tc \cup {h} ELSE st.tc,
                         ops |-> Append(st.ops, HookOp("attach", h, good)),
                         ok |-> good],
                        failing)

\* Instance::detach over the remaining hooks: the handle is taken out of
\* the field before the detach is tried, the ? returns at the first error;
\* a detach that failed leaves the program on the interface
RECURSIVE DetachHooks(_, _, _)
DetachHooks(order, st, failing) ==
    IF order = <<>> \/ ~st.ok THEN st
    ELSE LET h == Head(order)
             good == h \notin failing
         IN IF h \notin st.some
            THEN DetachHooks(Tail(order), st, failing)
            ELSE DetachHooks(Tail(order),
                             [some |-> st.some \ {h},
                              tc |-> IF good THEN st.tc \ {h} ELSE st.tc,
                              ops |-> Append(st.ops, HookOp("detach", h, good)),
                              ok |-> good],
                             failing)

HookState == [some |-> SomeHooks, tc |-> TcHooks, ops |-> <<>>, ok |-> TRUE]

InstanceAttach(failing) == AttachHooks(AttachOrder, HookState, failing)

InstanceDetach(failing) == DetachHooks(DetachOrder, HookState, failing)

Failed(ops) == {i \in 1..Len(ops) : ~ops[i].ok}

\* the fields and the interface after an Instance::attach / detach
SetHooks(st) ==
    /\ attached_ingress_hook' = ("ingress" \in st.some)
    /\ attached_egress_hook' = ("egress" \in st.some)
    /\ tc_ingress' = ("ingress" \in st.tc)
    /\ tc_egress' = ("egress" \in st.tc)

\* the sets of steps out of S that can still fail
Failing(S) == {f \in SUBSET S : faults + Cardinality(f) <= MaxFaults}

RetOf(ok) == IF ok THEN "ok" ELSE "err"

\* Instance::attach called by any user of the Instance
AttachCall ==
    /\ daemon = "hooks"
    /\ inst = "loaded"
    /\ \E failing \in Failing(Hooks) :
          LET st == InstanceAttach(failing) IN
          /\ Cardinality(failing) = Cardinality(Failed(st.ops))
          /\ faults + Cardinality(failing) <= MaxFaults
          /\ faults' = faults + Cardinality(failing)
          /\ SetHooks(st)
          /\ hook_call' = [call |-> "attach", ops |-> st.ops,
                           ret |-> RetOf(st.ok), cleanup |-> <<>>]
    /\ UNCHANGED <<policyVars, stepVars, kernelVars, flowVars, applyVars, pc,
                   callerVars, new_addresses, events, trace, hairpin_routing,
                   ctx, peer>>

\* Instance::detach called by any user of the Instance
DetachCall ==
    /\ daemon = "hooks"
    /\ inst = "loaded"
    /\ \E failing \in Failing(Hooks) :
          LET st == InstanceDetach(failing) IN
          /\ Cardinality(failing) = Cardinality(Failed(st.ops))
          /\ faults + Cardinality(failing) <= MaxFaults
          /\ faults' = faults + Cardinality(failing)
          /\ SetHooks(st)
          /\ hook_call' = [call |-> "detach", ops |-> st.ops,
                           ret |-> RetOf(st.ok), cleanup |-> <<>>]
    /\ UNCHANGED <<policyVars, stepVars, kernelVars, flowVars, applyVars, pc,
                   callerVars, new_addresses, events, trace, hairpin_routing,
                   ctx, peer>>

\* the families that can have a hairpin routing
HairpinFamilies == {"v4", "v6"}

\* main.rs lines 176-179: the task of the second interface is joined and
\* its context inserted
JoinPeer ==
    /\ daemon = "startup"
    /\ peer = "pending"
    /\ peer' = "loaded"
    /\ UNCHANGED <<policyVars, stepVars, kernelVars, flowVars, applyVars, pc,
                   callerVars, new_addresses, events, faults, trace, tcVars,
                   ctx>>

\* whether the attach loop has gone through every context
AllStarted(c, p) == c = "started" /\ p \in {"none", "started"}

\* main.rs lines 181-262, the iteration of the interface: Instance::attach,
\* then each enabled hairpin routing is configured; an attach error ends the
\* startup, a configure error is only warned about
Attach ==
    /\ daemon = "startup"
    /\ ctx = "loaded"
    /\ peer # "pending"
    /\ pc = "idle"
    /\ \E failing \in Failing(Hooks), unconfigured \in Failing(HairpinFamilies) :
          LET st == InstanceAttach(failing) IN
          /\ Cardinality(failing) = Cardinality(Failed(st.ops))
          /\ (~st.ok \/ ~hairpin) => unconfigured = {}
          /\ faults + Cardinality(failing) + Cardinality(unconfigured)
                <= MaxFaults
          /\ faults' = faults + Cardinality(failing)
                          + Cardinality(unconfigured)
          /\ SetHooks(st)
          /\ hook_call' = [call |-> "attach", ops |-> st.ops,
                           ret |-> RetOf(st.ok), cleanup |-> <<>>]
          /\ hairpin_routing' = IF st.ok /\ hairpin
                                THEN HairpinFamilies \ unconfigured ELSE {}
          /\ ctx' = IF st.ok THEN "started" ELSE ctx
          /\ daemon' = IF ~st.ok THEN "exit"
                       ELSE IF AllStarted("started", peer) THEN "monitor"
                       ELSE daemon
    /\ UNCHANGED <<policyVars, stepVars, kernelVars, flowVars, applyVars, pc,
                   runtime_v4_config, inst, ret, addresses, new_addresses,
                   events, trace, peer>>

\* main.rs lines 181-262, the iteration of the second interface
AttachPeer ==
    /\ daemon = "startup"
    /\ peer = "loaded"
    /\ ctx \in {"loaded", "started"}
    /\ pc = "idle"
    /\ \E ok \in BOOLEAN :
          /\ ~ok => faults < MaxFaults
          /\ faults' = IF ok THEN faults ELSE faults + 1
          /\ peer' = IF ok THEN "started" ELSE peer
          /\ daemon' = IF ~ok THEN "exit"
                       ELSE IF AllStarted(ctx, "started") THEN "monitor"
                       ELSE daemon
    /\ UNCHANGED <<policyVars, stepVars, kernelVars, flowVars, applyVars, pc,
                   runtime_v4_config, inst, ret, addresses, new_addresses,
                   events, trace, tcVars, ctx>>

\* the second interface, when configured, has a Matcher external
PeerIsStatic == FALSE

\* the monitor runs whatever the instances are
NeedMonitorAlways == TRUE

\* main.rs lines 152-154: any instance is not static
NeedMonitor == ~IsStatic(externals) \/ (peer # "none" /\ ~PeerIsStatic)

\* main.rs lines 274-285: an address-change event; for the index of the
\* interface (known) the addresses are queried and the v4 family is
\* reconfigured if its list differs; an event for any other index leaves the
\* context of the interface alone
MonitorEvent ==
    /\ daemon = "monitor"
    /\ NeedMonitor
    /\ pc = "idle"
    /\ events < MaxEvents
    /\ events' = events + 1
    /\ \E known \in BOOLEAN, queried \in BOOLEAN, addrs \in AddressSets,
          d6 \in BOOLEAN :
          /\ ~known => (queried /\ addrs = new_addresses /\ ~d6)
          /\ ~queried => (faults < MaxFaults /\ addrs = new_addresses /\ ~d6)
          /\ faults' = IF queried THEN faults ELSE faults + 1
          /\ new_addresses' = addrs
          /\ v6_differs' = d6
          /\ v6_ret' = "none"
          /\ daemon' = IF ~known THEN daemon
                       ELSE IF queried THEN "handling" ELSE "exit"
          /\ IF known /\ queried /\ addrs # addresses
             THEN StartApply(<<runtime_v4_config>>,
                             RuntimeConfigFrom(no_snat_dests, externals, addrs))
             ELSE UNCHANGED <<applyVars, pc, ret, trace>>
    /\ UNCHANGED <<policyVars, kernelVars, flowVars, hookVars,
                   runtime_v4_config, inst, addresses, life>>

\* main.rs lines 286-315: the rest of the event's handling, after the v4
\* family: the v6 family is reconfigured if its list differs, an error ends
\* the event loop; the hairpin destinations are refreshed, errors are logged
MonitorV6 ==
    /\ daemon = "handling"
    /\ pc = "idle"
    /\ v6_differs' = FALSE
    /\ \E ok \in BOOLEAN :
          /\ ~v6_differs => ok
          /\ ~ok => faults < MaxFaults
          /\ faults' = IF ok THEN faults ELSE faults + 1
          /\ v6_ret' = IF v6_differs THEN RetOf(ok) ELSE "none"
          /\ daemon' = IF ok THEN "monitor" ELSE "exit"
    /\ UNCHANGED <<policyVars, kernelVars, flowVars, hookVars, applyVars, pc,
                   runtime_v4_config, inst, ret, addresses, new_addresses,
                   events, trace, life>>

\* the select ends while an event is being handled
SelectReadyAnytime == daemon \in {"monitor", "handling"}

\* main.rs lines 324-336: the select polls the signals only while the
\* monitor is suspended, and the monitor does not suspend between the start
\* of a reconfigure and its return (lines 284, 293 hold no await)
SelectReady == daemon = "monitor" /\ pc = "idle"

\* main.rs lines 324-336: SIGINT or SIGTERM ends the select
Signal ==
    /\ SelectReady
    /\ daemon' = "exit"
    /\ UNCHANGED <<policyVars, stepVars, kernelVars, flowVars, hookVars,
                   applyVars, pc, runtime_v4_config, inst, ret, addresses,
                   new_addresses, events, faults, trace>>

\* IfContext::detach returns at the first failed step
StopsOnErrorAlways == TRUE

\* IfContext::detach, lines 110-127: the results are collected and looked
\* at only after every step was tried
StopsOnError == FALSE

CleanupStep(step, ok) == [step |-> step, ok |-> ok]

\* IfContext::detach, lines 113-120: deconfigure of each hairpin routing
\* that is Some, v4 before v6; take() empties the field
RECURSIVE Deconfigure(_, _, _)
Deconfigure(order, st, failing) ==
    IF order = <<>> \/ (StopsOnError /\ ~st.ok) THEN st
    ELSE LET f == Head(order) IN
         IF f \notin st.routing
         THEN Deconfigure(Tail(order), st, failing)
         ELSE Deconfigure(Tail(order),
                          [routing |-> st.routing \ {f},
                           cleanup |-> Append(st.cleanup,
                                              CleanupStep(f, f \notin failing)),
                           ok |-> st.ok /\ f \notin failing],
                          failing)

\* IfContext::detach: Instance::detach, then the hairpin routings
IfContextDetach(hooks, failing) ==
    Deconfigure(<<"v4", "v6">>,
                [routing |-> hairpin_routing,
                 cleanup |-> <<CleanupStep("inst", hooks.ok)>>,
                 ok |-> hooks.ok],
                failing)

\* whether a context is in contexts when daemon returns
InContexts(c) == c \in {"loaded", "started"}

\* main.rs lines 344-351: daemon_guard calls IfContext::detach on every
\* context of contexts, logs an error and goes on, then returns
Detach ==
    /\ daemon = "exit"
    /\ pc = "idle"
    /\ daemon' = "done"
    /\ \E failing \in Failing(Hooks \cup HairpinFamilies \cup {"peer"}) :
          LET hooks == InstanceDetach(failing)
              st == IfContextDetach(hooks, failing)
              own == IF InContexts(ctx)
                     THEN Cardinality(Failed(hooks.ops))
                             + Cardinality({i \in 1..Len(st.cleanup) :
                                   st.cleanup[i].step # "inst"
                                   /\ ~st.cleanup[i].ok})
                     ELSE 0
              other == IF InContexts(peer) /\ "peer" \in failing THEN 1 ELSE 0
          IN /\ Cardinality(failing) = own + other
             /\ faults + own + other <= MaxFaults
             /\ faults' = faults + own + other
             /\ IF InContexts(ctx)
                THEN /\ SetHooks(hooks)
                     /\ hairpin_routing' = st.routing
                     /\ hook_call' = [call |-> "cleanup", ops |-> hooks.ops,
                                      ret |-> RetOf(hooks.ok),
                                      cleanup |-> st.cleanup]
                     /\ ctx' = "cleaned"
                ELSE UNCHANGED <<tcVars, ctx>>
             /\ peer' = IF InContexts(peer) THEN "cleaned" ELSE peer
    /\ UNCHANGED <<policyVars, stepVars, kernelVars, flowVars, applyVars, pc,
                   runtime_v4_config, inst, ret, addresses, new_addresses,
                   events, trace>>

(***************************************************************************)
(* Specifications.                                                         *)
(***************************************************************************)
ApplyStep ==
    \/ HandleDestChange
    \/ HandleExternalInsert
    \/ RaiseDeleting
    \/ Sleep
    \/ ExternalDelete
    \/ BindingScan
    \/ BindingDelete
    \/ CtScan
    \/ CtDelete
    \/ ExternalUpdate
    \/ LowerDeleting
    \/ Finish

\* the Instance used through load and reconfigure_v4_addresses
Next ==
    \/ Load
    \/ LoadV6
    \/ Reconfigure
    \/ ApplyStep
    \/ DpBegin
    \/ DpCommit

Spec == Init /\ [][Next]_vars

\* the Instance driven by the orchestrator
NextDaemon ==
    \/ Load
    \/ LoadV6
    \/ JoinPeer
    \/ Attach
    \/ AttachPeer
    \/ MonitorEvent
    \/ MonitorV6
    \/ Signal
    \/ Detach
    \/ ApplyStep
    \/ DpBegin
    \/ DpCommit

SpecDaemon == InitDaemon /\ [][NextDaemon]_vars

\* the Instance loaded, then attached and detached by any caller
NextHooks ==
    \/ Load
    \/ LoadV6
    \/ HandleDestChange
    \/ HandleExternalInsert
    \/ Finish
    \/ AttachCall
    \/ DetachCall

SpecHooks == InitHooks /\ [][NextHooks]_vars

\* RuntimeV4Config::from called again with another address list, as
\* reconfigure_v4_addresses (lines 806-810) does
Rebuild ==
    /\ daemon = "builder"
    /\ events < MaxEvents
    /\ events' = events + 1
    /\ \E addrs \in AddressSets :
          /\ addresses' = addrs
          /\ new_addresses' = addrs
          /\ runtime_v4_config' =
                 RuntimeConfigFrom(no_snat_dests, externals, addrs)
    /\ UNCHANGED <<policyVars, stepVars, kernelVars, flowVars, hookVars,
                   applyVars, pc, inst, ret, daemon, faults, trace>>

\* PrefixMap::iter visits the keys in lexicographic order
PrefixBefore(p, q) == p.addr < q.addr \/ (p.addr = q.addr /\ p.len < q.len)

RECURSIVE IterKeys(_)
IterKeys(S) ==
    IF S = {} THEN <<>>
    ELSE LET first == CHOOSE p \in S : \A q \in S \ {p} : PrefixBefore(p, q)
         IN <<first>> \o IterKeys(S \ {first})

\* a comparator that moves nothing
HairpinCmpEqual(a, b, external) == "Equal"

\* the comparator of hairpin_dests: "move external address to first"
HairpinCmp(a, b, external) ==
    IF a = external THEN "Less"
    ELSE IF b = external THEN "Greater"
    ELSE "Equal"

\* slice::sort_by, a stable sort: an element goes behind the last element it
\* is not Less than
RECURSIVE SortByHairpinCmp(_, _)
SortByHairpinCmp(seq, external) ==
    IF seq = <<>> THEN <<>>
    ELSE LET sorted == SortByHairpinCmp(SubSeq(seq, 1, Len(seq) - 1), external)
             x == seq[Len(seq)]
             notLess == {i \in 1..Len(sorted) :
                            HairpinCmp(x, sorted[i], external) # "Less"}
             n == IF notLess = {} THEN 0
                  ELSE CHOOSE i \in notLess : \A j \in notLess : j <= i
         IN SubSeq(sorted, 1, n) \o <<x>> \o SubSeq(sorted, n + 1, Len(sorted))

\* RuntimeConfig::hairpin_dests
HairpinDests(cfg) ==
    LET keys == SelectSeq(IterKeys(DOMAIN cfg.dest_config),
                          LAMBDA prefix : cfg.dest_config[prefix].hairpin)
    IN SortByHairpinCmp(keys, cfg.external_addr)

\* Instance::v4_hairpin_dests called on the configuration just built
HairpinDestsCall ==
    /\ daemon = "builder"
    /\ dests' = [called |-> TRUE, res |-> HairpinDests(runtime_v4_config)]
    /\ dests' # dests
    /\ UNCHANGED <<externals, no_snat_dests, hairpin, rangeVars, stepVars,
                   kernelVars, flowVars, hookVars, applyVars, pc, inst, ret,
                   daemon, faults, trace, runtime_v4_config, addresses,
                   new_addresses, events>>

\* the Builder invoked for a sequence of address lists
NextBuilder == Rebuild \/ HairpinDestsCall

SpecBuilder == InitBuilder /\ [][NextBuilder]_vars

(***************************************************************************)
(* The port-range functions called on their own, as InstanceConfig::try_from *)
(* calls them for each External of the policy.                             *)
(***************************************************************************)
\* the ranges the raw lists are made of: with 0, empty, nested, overlapping,
\* adjacent and separate ranges and one that ends at the last port
RangePool ==
    {<<0, 1>>, <<1, 3>>, <<3, 3>>, <<4, 5>>, <<7, 7>>, <<9, 9>>, <<11, 11>>,
     <<9, U16 - 1>>, <<3, 2>>}

ListsUpTo(n) == UNION {[1..m -> RangePool] : m \in 0..n}

\* the lists an icmp field of a raw External is given
IcmpLists ==
    ListsUpTo(1) \cup {<<<<9, U16 - 1>>, <<11, 11>>>>, <<<<0, 1>>, <<7, 7>>>>}

OptIcmpLists == {None} \cup {Some(ranges) : ranges \in IcmpLists}

\* ConfigDefaults: every ICMP identifier, or a narrow ICMP default
DefaultsChoices ==
    {Defaults,
     [tcp_ranges |-> RangesA, udp_ranges |-> RangesA,
      icmp_ranges |-> <<<<0, 1>>>>, icmp_in_ranges |-> <<<<0, 1>>>>,
      icmp_out_ranges |-> <<<<1, 1>>>>]}

\* ConfigExternal entries of one address
RawExternals ==
    [address : {Static(ADDR_IPV4, 1)}, no_snat : {FALSE}, no_hairpin : {FALSE},
     tcp_ranges : {None, Some(<<<<0, 1>>>>), Some(<<<<1, 3>>>>)},
     udp_ranges : {None, Some(<<<<0, 1>>>>)},
     icmp_ranges : OptIcmpLists, icmp_in_ranges : OptIcmpLists,
     icmp_out_ranges : OptIcmpLists]

\* the values of ExternalRanges a build can hold: Vec::new() and what
\* ExternalRanges::try_from returns
ExternalRangesOf(overflow_checks) ==
    {ExternalRangesTryFrom(raw, TRUE, overflow_checks).ranges :
        raw \in {x \in ListsUpTo(MaxPair) :
                    ExternalRangesTryFrom(x, TRUE, overflow_checks).kind = "ok"}}

\* the calls, each made in a build with or without overflow checks
RangeCalls ==
    [fn : {"sort_and_merge_ranges"}, overflow_checks : BOOLEAN,
     ranges : ListsUpTo(MaxRaw)]
    \cup [fn : {"ExternalRanges::try_from"}, overflow_checks : BOOLEAN,
          ranges : ListsUpTo(MaxRaw), allow_zero : BOOLEAN]
    \cup UNION {[fn : {"contains"}, overflow_checks : {b},
                 self : ExternalRangesOf(b), other : ExternalRangesOf(b)] :
                    b \in BOOLEAN}
    \cup [fn : {"External::try_from"}, overflow_checks : BOOLEAN,
          external : RawExternals, defaults : DefaultsChoices]

InitRanges ==
    /\ externals = <<>>
    /\ InstanceState
    /\ addresses = {}
    /\ daemon = "ranges"
    /\ hairpin = FALSE
    /\ peer = "none"
    /\ range_call \in RangeCalls
    /\ range_ret = NoRangeRet

\* what a call leaves alone
RangeFrame ==
    UNCHANGED <<externals, no_snat_dests, hairpin, dests, range_call, stepVars,
                kernelVars, flowVars, hookVars, applyVars, pc, inst, ret,
                daemon, faults, trace, runtime_v4_config, addresses,
                new_addresses, events>>

RangeCallOf(fn) ==
    /\ daemon = "ranges"
    /\ range_ret = NoRangeRet
    /\ range_call.fn = fn

SortAndMergeCall ==
    /\ RangeCallOf("sort_and_merge_ranges")
    /\ LET r == SortAndMergeRanges(range_call.ranges,
                                   range_call.overflow_checks) IN
       range_ret' = [kind |-> IF r.panic THEN "panic" ELSE "ok",
                     ranges |-> r.ranges]
    /\ RangeFrame

ExternalRangesTryFromCall ==
    /\ RangeCallOf("ExternalRanges::try_from")
    /\ range_ret' = ExternalRangesTryFrom(range_call.ranges,
                                          range_call.allow_zero,
                                          range_call.overflow_checks)
    /\ RangeFrame

ContainsCall ==
    /\ RangeCallOf("contains")
    /\ LET r == Contains(range_call.self, range_call.other,
                         range_call.overflow_checks) IN
       range_ret' = [kind |-> IF r.panic THEN "panic" ELSE "ok",
                     value |-> r.value]
    /\ RangeFrame

ExternalTryFromCall ==
    /\ RangeCallOf("External::try_from")
    /\ range_ret' = ExternalTryFrom(range_call.external, range_call.defaults,
                                    range_call.overflow_checks)
    /\ RangeFrame

NextRanges ==
    \/ SortAndMergeCall
    \/ ExternalRangesTryFromCall
    \/ ContainsCall
    \/ ExternalTryFromCall

SpecRanges == InitRanges /\ [][NextRanges]_vars

(***************************************************************************)
(* Properties.                                                             *)
(***************************************************************************)
TraceOps(t) == {t[i].op : i \in 1..Len(t)}

\* operations issued inside a guarded region, after the raise
InsideOps == {"sleep", "ext_delete", "binding_scan", "binding_delete_batch",
              "ct_scan", "ct_delete_batch", "ext_update", "lower"}

PurgeOps == {"binding_scan", "binding_delete_batch", "ct_scan", "ct_delete_batch"}

\* some entry of the binding or CT map is removed by the step
EntryDeleted == ~(map_binding \subseteq map_binding') \/ ~(map_ct \subseteq map_ct')

\* the key is one apply updates / deletes in external_config
IsUpdateKey(k) ==
    /\ old # <<>>
    /\ k \in DOMAIN old[1].external_config
    /\ k \in DOMAIN new.external_config

IsDeleteKey(k) ==
    /\ old # <<>>
    /\ k \in DOMAIN old[1].external_config
    /\ k \notin DOMAIN new.external_config

\* entries of the family of the modelled configuration with external address a
EntriesOf(a) ==
    {b \in map_binding : BindingExternal(b) = [fam |-> ADDR_IPV4, addr |-> a]}
    \cup {c \in map_ct : c.fam = ADDR_IPV4 /\ c.src_addr = a}

\* the log entries from the last raise on
RECURSIVE LastRegion(_)
LastRegion(t) ==
    IF t = <<>> THEN <<>>
    ELSE IF t[Len(t)].op = "raise" THEN <<t[Len(t)]>>
    ELSE LET r == LastRegion(SubSeq(t, 1, Len(t) - 1))
         IN IF r = <<>> THEN <<>> ELSE Append(r, t[Len(t)])

\* C1: during an external-config Update or Delete the quiescence flag is 1
\* whenever the control plane deletes a binding or CT entry, and it is 0
\* again when apply returns, on success and on every error path; so the
\* flag is 0 whenever no apply is executing.
C1_FlagGuardsDeletes ==
    [][/\ EntryDeleted =>
            (g_deleting_map_entries = 1 /\ g_deleting_map_entries' = 1)
       /\ pc' = "idle" => g_deleting_map_entries' = 0]_vars

\* C1 witness: an apply that purged binding entries and then failed has
\* returned, the flag lowered.
C1_Witness ==
    /\ pc = "idle"
    /\ ret = "err"
    /\ g_deleting_map_entries = 0
    /\ \E i \in 1..Len(trace) : trace[i].op = "binding_delete_batch" /\ trace[i].ok
    /\ trace[Len(trace)].op = "lower"

\* C2: if the kernel maps held exactly old's entries when apply(Some(old),
\* new) was entered and apply returned success, the kernel dest_config map
\* equals new.dest_config, the kernel external_config map equals
\* new.external_config and the scalar equals new.external_addr.
C2_KernelEqualsNew ==
    (pc = "idle" /\ ret = "ok" /\ old # <<>> /\ call.in_sync) =>
        /\ map_dest_config = new.dest_config
        /\ map_external_config = new.external_config
        /\ g_ipv4_external_addr = new.external_addr.addr

\* C2 witness: a successful reconcile from in-sync maps that updated one
\* external entry, deleted another, updated a dest entry and changed the
\* primary address.
C2_Witness ==
    /\ pc = "idle" /\ ret = "ok" /\ old # <<>> /\ call.in_sync
    /\ old[1].external_addr # new.external_addr
    /\ {"ext_update", "ext_delete", "dest_update", "scalar"} \subseteq TraceOps(trace)

\* C3 (as claimed): a reconcile that retries the target of a failed
\* reconcile, with no kernel operation failing for external reasons,
\* succeeds and leaves the kernel maps equal to the new configuration.
C3_RetryConverges ==
    (pc = "idle" /\ call.retry /\ faults = call.faults0) =>
        /\ ret = "ok"
        /\ map_dest_config = new.dest_config
        /\ map_external_config = new.external_config

\* C4 (as claimed): when a reconfigure called for an address-change event
\* returns an error, the event loop keeps running and nothing is detached.
C4_EventLoopSurvives ==
    [][(inst = "loaded" /\ pc # "idle" /\ pc' = "idle" /\ ret' = "err") =>
          (daemon' \in {"monitor", "handling"}
             /\ attached_ingress_hook' /\ attached_egress_hook')]_vars

\* the order of the operations of a guarded Update
UpdateSucc(a, b) ==
    CASE a.op = "raise" -> b.op = "sleep"
      [] a.op = "sleep" -> b.op = "binding_scan"
      [] a.op = "binding_scan" ->
            IF a.ok THEN b.op \in {"binding_delete_batch", "ct_scan"}
            ELSE b.op = "lower"
      [] a.op = "binding_delete_batch" ->
            IF a.ok THEN b.op = "ct_scan" ELSE b.op = "lower"
      [] a.op = "ct_scan" -> b.op \in {"ct_delete_batch", "ext_update"}
      [] a.op = "ct_delete_batch" ->
            IF a.ok THEN b.op = "ext_update" ELSE b.op = "lower"
      [] a.op = "ext_update" -> b.op = "lower"
      [] OTHER -> FALSE

\* the order of the operations of a guarded Delete
DeleteSucc(a, b) ==
    CASE a.op = "raise" -> b.op = "sleep"
      [] a.op = "sleep" -> b.op = "ext_delete"
      [] a.op = "ext_delete" ->
            IF a.ok THEN b.op = "binding_scan" ELSE b.op = "lower"
      [] a.op = "binding_scan" ->
            IF a.ok THEN b.op \in {"binding_delete_batch", "ct_scan"}
            ELSE b.op = "lower"
      [] a.op = "binding_delete_batch" ->
            IF a.ok THEN b.op = "ct_scan" ELSE b.op = "lower"
      [] a.op = "ct_scan" -> b.op \in {"ct_delete_batch", "lower"}
      [] a.op = "ct_delete_batch" -> b.op = "lower"
      [] OTHER -> FALSE

\* every guarded operation on key k in the log is followed by the next
\* operation of the sequence, on the same key; once apply is outside the
\* region the sequence has ended with the lowering of the flag
FollowsSequence(IsKey(_), Succ(_, _)) ==
    /\ \A i \in 1..Len(trace) :
          (IsKey(trace[i].k) /\ trace[i].op \in ({"raise"} \cup InsideOps) \ {"lower"}) =>
              IF i < Len(trace)
              THEN Succ(trace[i], trace[i + 1]) /\ trace[i + 1].k = trace[i].k
              ELSE change # <<>> /\ change[1].k = trace[i].k
    /\ \A i \in 1..Len(trace) :
          (IsKey(trace[i].k) /\ trace[i].op \in InsideOps) =>
              (i > 1 /\ trace[i - 1].op \in ({"raise"} \cup InsideOps) \ {"lower"})

\* C5: an external-config Update of key k is exactly: raise the flag, sleep,
\* purge the bindings then the CT entries of k, overwrite external_config[k],
\* lower the flag; the kernel entry of k is unchanged until the purge has
\* completed and is not overwritten when the purge fails.
C5_UpdateSequence ==
    /\ []FollowsSequence(IsUpdateKey, UpdateSucc)
    /\ [][(change # <<>> /\ change[1].op = "Update" /\ pc # "ext_update") =>
             map_external_config' = map_external_config]_vars

\* C5 witness: a guarded Update that purged bindings and CT entries and
\* overwrote the entry has completed.
C5_Witness ==
    /\ pc = "idle" /\ ret = "ok"
    /\ \E i \in 1..Len(trace) : trace[i].op = "ext_update" /\ trace[i].ok
    /\ {"binding_delete_batch", "ct_delete_batch"} \subseteq TraceOps(trace)

\* C6: an external-config Delete of key k is exactly: raise the flag, sleep,
\* delete external_config[k], purge the bindings and CT entries of k, lower
\* the flag; the purge never starts before the entry has been removed.
C6_DeleteSequence ==
    /\ FollowsSequence(IsDeleteKey, DeleteSucc)
    /\ (change # <<>> /\ change[1].op = "Delete"
            /\ pc \in {"binding_scan", "binding_delete", "ct_scan", "ct_delete"}) =>
          change[1].k \notin DOMAIN map_external_config

\* C6 witness: a guarded Delete is purging CT entries, the external-config
\* entry gone and binding entries already deleted.
C6_Witness ==
    /\ pc = "ct_delete"
    /\ change # <<>> /\ change[1].op = "Delete"
    /\ "binding_delete_batch" \in TraceOps(LastRegion(trace))

\* the purge of the open region ran to its end without an error
PurgeCompleted ==
    LET r == LastRegion(trace)
    IN /\ "ct_scan" \in TraceOps(r)
       /\ \A i \in 1..Len(r) : r[i].op = "ct_delete_batch" => r[i].ok
       /\ r[Len(r)].op # "ct_scan" \/ to_delete = {}

C8_NoOpReconcile ==
    (old # <<>> /\ old[1] = new) =>
        /\ trace = <<>>
        /\ pc \in {"finish", "idle"}
        /\ ret \in {"none", "ok"}
        /\ call.in_sync =>
              (map_dest_config = new.dest_config
                  /\ map_external_config = new.external_config
                  /\ g_ipv4_external_addr = new.external_addr.addr
                  /\ g_deleting_map_entries = 0)

\* C8 witness: apply(None, cfg) succeeded on a configuration with external
\* entries and apply(Some(cfg), cfg) has returned.
C8_Witness ==
    /\ pc = "idle" /\ ret = "ok"
    /\ old = <<new>>
    /\ call.after_load
    /\ DOMAIN new.external_config # {}
    /\ g_ipv4_external_addr # Unspecified

\* the step issues an external-config Insert
InsertIssued ==
    /\ Len(trace') = Len(trace) + 1
    /\ trace'[Len(trace')].op = "ext_insert"

\* C9: an external-config Insert of a key present in the kernel map fails:
\* apply returns an error and the kernel entry is unchanged; an Insert never
\* raises the flag and never deletes binding or CT entries.
C9_InsertCreateOnly ==
    [][InsertIssued =>
          LET e == trace'[Len(trace')]
          IN /\ e.k \in DOMAIN map_external_config =>
                   /\ ~e.ok
                   /\ pc' = "idle" /\ ret' = "err"
                   /\ map_external_config' = map_external_config
             /\ e.ok => map_external_config' =
                            MapPut(map_external_config, e.k, new.external_config[e.k])
             /\ g_deleting_map_entries = 0 /\ g_deleting_map_entries' = 0
             /\ map_binding' = map_binding /\ map_ct' = map_ct]_vars

\* C9 witness: apply has returned an error from an Insert of a key that is
\* in the kernel map.
C9_Witness ==
    /\ pc = "idle" /\ ret = "err"
    /\ trace # <<>>
    /\ trace[Len(trace)].op = "ext_insert"
    /\ ~trace[Len(trace)].ok
    /\ trace[Len(trace)].k \in DOMAIN map_external_config

\* C10: the scalar is written only as the last operation of an apply all of
\* whose dest-config and external-config changes succeeded; a successful
\* apply with a previous configuration writes it iff external_addr differs,
\* a successful first apply always writes it, and the value written is
\* new.external_addr.
C10_ScalarLast ==
    /\ \A i \in 1..Len(trace) :
          trace[i].op = "scalar" =>
              /\ i = Len(trace)
              /\ \A j \in 1..Len(trace) : trace[j].ok
              /\ pc = "idle" /\ ret = "ok"
              /\ dest_changes = {} /\ ext_changes = {}
              /\ g_ipv4_external_addr = new.external_addr.addr
    /\ (pc = "idle" /\ ret = "ok") =>
          ("scalar" \in TraceOps(trace) <=>
              (old = <<>> \/ old[1].external_addr # new.external_addr))

\* C10 witness: a successful reconcile with a previous configuration has
\* written the scalar after other changes.
C10_Witness ==
    /\ pc = "idle" /\ ret = "ok" /\ old # <<>>
    /\ Len(trace) > 2
    /\ trace[Len(trace)].op = "scalar"
    /\ g_ipv4_external_addr # Unspecified

\* C11: once a map operation of an apply has failed, that apply issues no
\* further map operation and no scalar write (only the flag is lowered when
\* the failure was inside a guarded region) and returns the error.
C11_AbortOnError ==
    \A i \in 1..Len(trace) :
        ~trace[i].ok =>
            /\ \A j \in (i + 1)..Len(trace) : j = i + 1 /\ trace[j].op = "lower"
            /\ pc \in {"lower", "idle"}
            /\ pc = "lower" => (res = "err" /\ i = Len(trace))
            /\ pc = "idle" =>
                  /\ ret = "err"
                  /\ trace[i].op \in InsideOps <=> i + 1 = Len(trace)

\* C11 witness: an apply has returned an error from inside a guarded region
\* with external-config changes and the scalar write still outstanding.
C11_Witness ==
    /\ pc = "idle" /\ ret = "err"
    /\ Len(trace) >= 2
    /\ ~trace[Len(trace) - 1].ok
    /\ trace[Len(trace)].op = "lower"
    /\ Cardinality(ext_changes) >= 2
    /\ WritesExternalAddr(old, new)

\* C12: a reconfigure applies the configuration built from the stored
\* policy and the new addresses against the stored configuration; the stored
\* configuration changes only when that apply returns success, and then to
\* the new one; as long as every call has succeeded it equals the kernel
\* dest_config and external_config maps.
C12_StoredConfig ==
    /\ []((inst = "loaded" /\ pc # "idle") =>
            /\ new = RuntimeConfigFrom(no_snat_dests, externals, new_addresses)
            /\ old = <<runtime_v4_config>>)
    /\ []((inst = "loaded" /\ pc = "idle" /\ faults = 0) =>
            /\ ret = "ok"
            /\ map_dest_config = runtime_v4_config.dest_config
            /\ map_external_config = runtime_v4_config.external_config)
    /\ [][/\ runtime_v4_config' # runtime_v4_config =>
                (inst = "loaded" /\ pc' = "idle" /\ ret' = "ok")
          /\ (inst = "loaded" /\ pc # "idle" /\ pc' = "idle") =>
                runtime_v4_config' =
                    IF ret' = "ok" THEN new ELSE runtime_v4_config]_vars

\* C12 witness: a reconfigure that changed kernel entries has failed and
\* the stored configuration is still the previous one.
C12_Witness ==
    /\ inst = "loaded" /\ pc = "idle" /\ ret = "err"
    /\ old = <<runtime_v4_config>>
    /\ runtime_v4_config # new
    /\ \E i \in 1..Len(trace) : trace[i].ok /\ trace[i].op \in {"dest_delete", "ext_delete"}

\* the reconcile in progress (or last run) is for the interface gaining or
\* losing the single address a, the policy unchanged
SingleAddressChange(a) ==
    /\ old # <<>>
    /\ \E A \in AddressSets :
          /\ old[1] = RuntimeConfigFrom(no_snat_dests, externals, A)
          /\ (A \ new_addresses) \cup (new_addresses \ A) = {a}

\* entries of map m for keys other than k are those of map o
SameExcept(m, o, k) ==
    /\ (DOMAIN m) \ {k} = (DOMAIN o) \ {k}
    /\ \A x \in (DOMAIN m) \ {k} : m[x] = o[x]

\* C13 (as claimed): when the single address a is withdrawn or added, the
\* reconcile operates on the host key of a only: dest-config changes of a,
\* a guarded external-config Delete with purge of a (withdrawn) or a
\* create-only Insert (added), the scalar rewritten iff the primary address
\* changed; entries of other keys are unchanged and no flow of another
\* address is purged.
C13_SingleAddressReconcile ==
    /\ [](\A a \in Addrs : SingleAddressChange(a) =>
            /\ \A i \in 1..Len(trace) :
                  trace[i].op # "scalar" => trace[i].k = FromAddr(a)
            /\ a \in new_addresses =>
                  TraceOps(trace) \cap ({"raise", "ext_update"} \cup InsideOps) = {}
            /\ a \notin new_addresses =>
                  TraceOps(trace) \cap {"ext_insert", "ext_update"} = {}
            /\ (pc = "idle" /\ ret = "ok") =>
                  ("scalar" \in TraceOps(trace) <=>
                      old[1].external_addr # new.external_addr)
            /\ call.in_sync =>
                  /\ SameExcept(map_dest_config, old[1].dest_config, FromAddr(a))
                  /\ SameExcept(map_external_config, old[1].external_config,
                                FromAddr(a)))
    /\ [][\A a \in Addrs : (SingleAddressChange(a) /\ pc # "idle") =>
            /\ (map_binding \ map_binding') \subseteq EntriesOf(a)
            /\ (map_ct \ map_ct') \subseteq EntriesOf(a)]_vars

\* C14: the daemon leaves its event loop only between reconciles: when it
\* has left the loop and when daemon_guard has detached, no apply is in
\* progress, no guarded region is open and the deleting flag is 0.
C14_ExitBetweenReconciles ==
    daemon \in {"exit", "done"} =>
        /\ pc = "idle"
        /\ change = <<>>
        /\ g_deleting_map_entries = 0

\* a signal ended the daemon after a reconcile that ran a guarded region
C14_Witness ==
    /\ daemon = "done"
    /\ faults = 0
    /\ events > 0
    /\ ret = "ok"
    /\ "lower" \in TraceOps(trace)
    /\ ~tc_ingress /\ ~tc_egress

\* the cleanup steps due for a context with the given hairpin routings
CleanupDue(routing) ==
    <<"inst">> \o (IF "v4" \in routing THEN <<"v4">> ELSE <<>>)
               \o (IF "v6" \in routing THEN <<"v6">> ELSE <<>>)

\* C15: when the daemon has exited, every context of the contexts map went
\* through its cleanup: Instance::detach was tried and deconfigure was tried
\* for each hairpin routing the context held, whichever of these steps or
\* of the other context's steps failed.
C15_CleanupAttemptsAll ==
    /\ [](daemon = "done" =>
             /\ ctx \in {"none", "cleaned"}
             /\ peer \in {"none", "pending", "cleaned"})
    /\ [][(daemon = "exit" /\ daemon' = "done") =>
             /\ peer \in {"loaded", "started"} => peer' = "cleaned"
             /\ ctx \in {"loaded", "started"} =>
                   /\ ctx' = "cleaned"
                   /\ hook_call'.call = "cleanup"
                   /\ [i \in 1..Len(hook_call'.cleanup) |->
                          hook_call'.cleanup[i].step]
                         = CleanupDue(hairpin_routing)
                   /\ hairpin_routing' = {}]_vars

\* Instance::detach failed and both hairpin routings were deconfigured after
\* it, beside the cleanup of the second interface
C15_Witness ==
    /\ daemon = "done"
    /\ ctx = "cleaned"
    /\ peer = "cleaned"
    /\ hook_call.call = "cleanup"
    /\ hook_call.cleanup = <<CleanupStep("inst", FALSE),
                             CleanupStep("v4", TRUE), CleanupStep("v6", TRUE)>>

\* the hooks a call worked on, in the order of its operations
HooksOf(ops) == [i \in 1..Len(ops) |-> ops[i].hook]

\* C16 (as claimed): detach removes the egress hook before the ingress hook;
\* a detach called while no hook is attached, or after a detach that
\* succeeded, performs no hook operation and succeeds; once a detach has
\* succeeded neither program is attached to the interface.
C16_DetachIdempotent ==
    /\ [](hook_call.call = "detach" =>
             HooksOf(hook_call.ops)
                \in {<<>>, <<"egress">>, <<"ingress">>, <<"egress", "ingress">>})
    /\ [][(hook_call'.call = "detach" /\ hook_call' # hook_call
           /\ \/ ~tc_ingress /\ ~tc_egress
              \/ hook_call.call = "detach" /\ hook_call.ret = "ok") =>
             (hook_call'.ops = <<>> /\ hook_call'.ret = "ok")]_vars
    /\ []((hook_call.call = "detach" /\ hook_call.ret = "ok") =>
             (~tc_ingress /\ ~tc_egress))

\* the order of the steps that bring an Instance up
LifecycleOrder == <<"open", "const", "load", "apply_v4", "apply_v6">>

IsPrefix(a, b) == Len(a) <= Len(b) /\ a = SubSeq(b, 1, Len(a))

\* C17: an Instance is brought up in the order open, ConstConfig (once,
\* before the load and never after it), load, first apply of the v4 and then
\* of the v6 configuration with no previous one; a hook is attached only
\* after all of these succeeded, the ingress hook before the egress hook.
C17_LifecycleOrder ==
    /\ [](IsPrefix(life, LifecycleOrder))
    /\ []((inst = "loading" /\ pc # "idle") => old = <<>>)
    /\ []((attached_ingress_hook \/ attached_egress_hook \/ tc_ingress
           \/ tc_egress) =>
             (inst = "loaded" /\ life = LifecycleOrder))
    /\ [][(hook_call'.call = "attach" /\ hook_call' # hook_call) =>
             /\ inst = "loaded" /\ life = LifecycleOrder /\ ret = "ok"
             /\ HooksOf(hook_call'.ops)
                   \in {<<"ingress">>, <<"ingress", "egress">>}]_vars

\* the daemon attached both hooks after the whole load
C17_Witness ==
    /\ daemon = "monitor"
    /\ hook_call.call = "attach"
    /\ hook_call.ret = "ok"
    /\ tc_ingress /\ tc_egress
    /\ life = LifecycleOrder
    /\ "scalar" \in TraceOps(trace)

\* every External of the policy is Static
AllStatic ==
    \A i \in 1..Len(externals) : externals[i].address.kind = "Static"

\* C18: is_static holds iff every External is Static; with every instance
\* static no address-change event is handled and no reconfigure is ever
\* called; otherwise an event for the interface queries the addresses and
\* reconfigures the v4 family iff its list differs from the stored one and
\* the v6 family iff its list differs, the stored list is replaced by the
\* queried one, and an event for another index changes nothing.
C18_MonitorReconfigures ==
    /\ [](IsStatic(externals) <=> AllStatic)
    /\ []((AllStatic /\ peer = "none") => (events = 0 /\ old = <<>>))
    /\ []((daemon = "monitor" \/ (daemon = "handling" /\ pc = "idle")) =>
             addresses = new_addresses)
    /\ [][events' = events + 1 =>
             /\ ~AllStatic \/ peer # "none"
             /\ daemon' = "monitor" =>
                   UNCHANGED <<pc, trace, old, new, kernelVars, addresses,
                               new_addresses, runtime_v4_config, v6_differs,
                               faults, hookVars>>
             /\ daemon' = "handling" =>
                   /\ pc' # "idle" <=> new_addresses' # addresses
                   /\ pc' # "idle" =>
                         /\ old' = <<runtime_v4_config>>
                         /\ new' = RuntimeConfigFrom(no_snat_dests, externals,
                                                     new_addresses')]_vars
    /\ [][addresses' # addresses =>
             /\ daemon = "handling" /\ pc # "idle" /\ pc' = "idle"
             /\ ret' = "ok"
             /\ addresses' = new_addresses]_vars
    /\ [][(daemon = "handling" /\ pc = "idle" /\ daemon' # "handling") =>
             (v6_ret' # "none" <=> v6_differs)]_vars

\* an event whose v4 and v6 lists both differed was handled and stored
C18_Witness ==
    /\ daemon = "monitor"
    /\ events > 0
    /\ old # <<>>
    /\ runtime_v4_config = new
    /\ ret = "ok"
    /\ v6_ret = "ok"
    /\ addresses = new_addresses
    /\ "ext_insert" \in TraceOps(trace)

\* C19: in every configuration the Builder produces, for whatever sequence
\* of address lists it is invoked with, the keys of dest_config are the
\* configured no-snat destinations together with the keys of
\* external_config, and every key of external_config is a host-width prefix.
C19_DestConfigKeys ==
    daemon = "builder" =>
        /\ DOMAIN runtime_v4_config.dest_config
              = RangeOfSeq(no_snat_dests)
                   \cup DOMAIN runtime_v4_config.external_config
        /\ \A k \in DOMAIN runtime_v4_config.external_config : k.len = HostLen

\* after its last invocation the Builder holds two external entries beside
\* the no-snat destinations, one of which is also an external address
C19_Witness ==
    /\ daemon = "builder"
    /\ events = MaxEvents
    /\ DOMAIN runtime_v4_config.external_config = {FromAddr(1), FromAddr(2)}
    /\ Cardinality(DOMAIN runtime_v4_config.dest_config) = 3

\* External e claims address a when it gets to see it
Covers(e, a) ==
    /\ e.address.fam = ADDR_IPV4
    /\ a # Unspecified
    /\ IF e.address.kind = "Static" THEN e.address.addr = a
       ELSE NetContains(e.address, a)

\* the addresses External i matches: its own address if Static, else the
\* addresses of the list it covers that no earlier External claimed
MatchesOf(i) ==
    IF externals[i].address.kind = "Static"
    THEN {a \in {externals[i].address.addr} : Covers(externals[i], a)}
    ELSE {a \in addresses : /\ Covers(externals[i], a)
                            /\ \A j \in 1..(i - 1) : ~Covers(externals[j], a)}

\* the Externals that may give the external address
Candidates ==
    {i \in 1..Len(externals) : ~externals[i].no_snat /\ MatchesOf(i) # {}}

\* C20: external_addr is the first match (the lowest address a Matcher
\* matched) of the first External of the list that is not no_snat and
\* matched anything; it is the unspecified host prefix if there is none.
C20_ExternalAddr ==
    daemon = "builder" =>
        runtime_v4_config.external_addr =
            IF Candidates = {} THEN FromAddr(Unspecified)
            ELSE FromAddr(Min(MatchesOf(Min(Candidates))))

\* the second External gives the external address, out of two addresses it
\* matched, and a later External would give another one
C20_Witness ==
    /\ daemon = "builder"
    /\ events > 0
    /\ Cardinality(Candidates) = 2
    /\ Min(Candidates) = 2
    /\ Cardinality(MatchesOf(2)) = 2
    /\ runtime_v4_config.external_addr = FromAddr(1)

\* the Externals of the list that matched address a
Matching(a) == {i \in 1..Len(externals) : a \in MatchesOf(i)}

\* C21 (as claimed): the external_config entry of a prefix and the HAIRPIN
\* flag of its dest_config entry are those written by the first External of
\* the list that matched the prefix; no later External changes them.
C21_FirstClaimWins ==
    daemon = "builder" =>
        \A k \in DOMAIN runtime_v4_config.external_config :
            LET first == externals[Min(Matching(k.addr))] IN
            /\ runtime_v4_config.external_config[k]
                  = InitExternalValue(first, DefaultExternalConfig)
            /\ runtime_v4_config.dest_config[k].hairpin = ~first.no_hairpin

\* C22 (as claimed): every external_config entry with NO_SNAT set has its
\* five port-range length bytes at zero.
C22_NoSnatZeroLengths ==
    daemon = "builder" =>
        \A k \in DOMAIN runtime_v4_config.external_config :
            LET v == runtime_v4_config.external_config[k] IN
            v.no_snat =>
                /\ v.tcp_range_len = 0
                /\ v.udp_range_len = 0
                /\ v.icmp_range_len = 0
                /\ v.icmp_in_range_len = 0
                /\ v.icmp_out_range_len = 0

\* C23 (as claimed): a prefix matched by an External with no_snat = true
\* has NO_SNAT set in its external_config entry and in its dest_config entry.
C23_NoSnatBothMaps ==
    daemon = "builder" =>
        \A i \in 1..Len(externals) :
            externals[i].no_snat =>
                \A a \in MatchesOf(i) :
                    /\ runtime_v4_config.external_config[FromAddr(a)].no_snat
                    /\ runtime_v4_config.dest_config[FromAddr(a)].no_snat

\* the keys of dest_config whose entry has HAIRPIN set
HairpinKeys == {k \in DOMAIN runtime_v4_config.dest_config :
                   runtime_v4_config.dest_config[k].hairpin}

\* the last External of the list that matched address a
LastMatching(a) ==
    externals[CHOOSE i \in Matching(a) : \A j \in Matching(a) : j <= i]

\* C25: hairpin_dests returns exactly the dest_config keys with HAIRPIN set,
\* each once, external_addr first when it is among them and the others in
\* dest_config iteration order; the HAIRPIN flag of a matched prefix is set
\* iff the External that configured its entry has no_hairpin = false.
C25_HairpinDests ==
    /\ [](daemon = "builder" =>
            \A k \in DOMAIN runtime_v4_config.external_config :
                runtime_v4_config.dest_config[k].hairpin
                    <=> ~LastMatching(k.addr).no_hairpin)
    /\ [][dests' # dests =>
            LET r == dests'.res IN
            /\ RangeOfSeq(r) = HairpinKeys
            /\ Len(r) = Cardinality(HairpinKeys)
            /\ runtime_v4_config.external_addr \in HairpinKeys
                   => r[1] = runtime_v4_config.external_addr
            /\ \A i, j \in 1..Len(r) :
                   (/\ i < j
                    /\ r[i] # runtime_v4_config.external_addr
                    /\ r[j] # runtime_v4_config.external_addr)
                       => PrefixBefore(r[i], r[j])]_vars

\* hairpin_dests moved external_addr in front of a key that dest_config
\* iterates earlier and left out a key whose entry has HAIRPIN cleared
C25_Witness ==
    /\ dests.called
    /\ events = 0
    /\ Len(dests.res) >= 2
    /\ dests.res[1] = runtime_v4_config.external_addr
    /\ PrefixBefore(dests.res[2], dests.res[1])
    /\ \E k \in DOMAIN runtime_v4_config.dest_config :
           /\ ~runtime_v4_config.dest_config[k].hairpin
           /\ k \notin RangeOfSeq(dests.res)

\* Ports at which two lists made of RangePool can differ: every port from
\* 12 to 65535 lies in the same ranges of the pool.
ProbePorts == 0..12 \cup {U16 - 1}

InRanges(p, ranges) ==
    \E i \in 1..Len(ranges) : ranges[i][1] <= p /\ p <= ranges[i][2]

\* the two lists cover the same set of ports
SamePorts(a, b) == \A p \in ProbePorts : InRanges(p, a) <=> InRanges(p, b)

\* every port of b is a port of a
PortsSubset(b, a) == \A p \in ProbePorts : InRanges(p, b) => InRanges(p, a)

\* sorted by lo, pairwise non-overlapping and non-adjacent
IsNormalized(ranges) ==
    /\ \A i \in 1..Len(ranges) : ranges[i][1] <= ranges[i][2]
    /\ \A i, j \in 1..Len(ranges) :
           i < j => /\ ranges[i][1] <= ranges[j][1]
                    /\ ranges[i][2] + 1 < ranges[j][1]

\* a call of fn has returned (or panicked)
Returned(fn) == range_call.fn = fn /\ range_ret.kind # "none"

\* C26 (as claimed): for every list of 16-bit port ranges normalize returns a
\* list sorted by lo, pairwise non-overlapping and non-adjacent, that covers
\* the ports of the non-empty input ranges, and normalizing it again gives
\* the same list.
C26_Normalize ==
    Returned("sort_and_merge_ranges") =>
        /\ range_ret.kind = "ok"
        /\ IsNormalized(range_ret.ranges)
        /\ SamePorts(range_ret.ranges, range_call.ranges)
        /\ SortAndMergeRanges(range_ret.ranges, range_call.overflow_checks)
               = [panic |-> FALSE, ranges |-> range_ret.ranges]

\* C27: for all port-range lists A and B, contains(A, B) returns true iff
\* every port of B is a port of A; contains(A, A) and contains(A, empty) are
\* true and contains(empty, B) is false for a non-empty B.
C27_Contains ==
    Returned("contains") =>
        /\ range_ret.kind = "ok"
        /\ range_ret.value <=> PortsSubset(range_call.other, range_call.self)
        /\ range_call.self = range_call.other => range_ret.value
        /\ range_call.other = <<>> => range_ret.value
        /\ (range_call.self = <<>> /\ range_call.other # <<>>)
               => ~range_ret.value

\* contains returned true for two different lists of which the first was
\* left unmerged by a wrapped addition, and false for none
C27_Witness ==
    /\ Returned("contains")
    /\ range_ret.value
    /\ range_call.other # <<>>
    /\ range_call.self # range_call.other
    /\ ~IsNormalized(range_call.self)

\* the number of ranges of the normalized form of a list made of RangePool:
\* the ports at which a run of covered ports starts
MergedLen(ranges) ==
    Cardinality({p \in {r[1] : r \in RangePool} :
                    /\ InRanges(p, ranges)
                    /\ (p = 0 \/ ~InRanges(p - 1, ranges))})

\* C28 (as claimed): ExternalRanges::try_from fails when allow_zero is false
\* and a raw range starts at 0, whatever normalization and the length check
\* would give; otherwise it fails when the number of ranges after merging
\* exceeds MAX_PORT_RANGES, and a longer raw list that merges down to at most
\* MAX_PORT_RANGES is accepted; otherwise it returns the normalized list.
C28_TryFrom ==
    Returned("ExternalRanges::try_from") =>
        IF /\ ~range_call.allow_zero
           /\ \E i \in 1..Len(range_call.ranges) : range_call.ranges[i][1] = 0
        THEN range_ret = [kind |-> "err", err |-> "contains zero"]
        ELSE IF MergedLen(range_call.ranges) > MAX_PORT_RANGES
        THEN range_ret = [kind |-> "err", err |-> "exceed limit"]
        ELSE /\ range_ret.kind = "ok"
             /\ IsNormalized(range_ret.ranges)
             /\ SamePorts(range_ret.ranges, range_call.ranges)

\* a range of the list starts at port 0
ZeroStart(ranges) == \E i \in 1..Len(ranges) : ranges[i][1] = 0

\* the list covers no port
NoPorts(ranges) == \A i \in 1..Len(ranges) : IsEmptyRange(ranges[i])

\* the raw list External::try_from reads for a field
RawList(field) ==
    UnwrapOr(range_call.external[field], range_call.defaults[field])

\* the raw tcp, udp and icmp lists of the call are accepted
RawHeadAccepted ==
    /\ ~ZeroStart(RawList("tcp_ranges"))
    /\ ~ZeroStart(RawList("udp_ranges"))
    /\ MergedLen(RawList("icmp_ranges")) <= MAX_PORT_RANGES

\* C29 (as claimed): every External returned by External::try_from has
\* icmp containing icmp_in and icmp_out; when icmp is empty, icmp_in and
\* icmp_out are empty and their raw lists are not validated; when icmp is
\* non-empty and does not contain icmp_in or icmp_out, try_from returns an
\* error and no External.
C29_IcmpContainment ==
    Returned("External::try_from") =>
        /\ range_ret.kind = "ok" =>
               /\ PortsSubset(range_ret.external.icmp_in_ranges,
                              range_ret.external.icmp_ranges)
               /\ PortsSubset(range_ret.external.icmp_out_ranges,
                              range_ret.external.icmp_ranges)
               /\ range_ret.external.icmp_ranges = <<>> =>
                      /\ range_ret.external.icmp_in_ranges = <<>>
                      /\ range_ret.external.icmp_out_ranges = <<>>
        /\ (RawHeadAccepted /\ NoPorts(RawList("icmp_ranges"))) =>
               /\ range_ret.kind = "ok"
               /\ range_ret.external.icmp_ranges = <<>>
        /\ (/\ RawHeadAccepted
            /\ ~NoPorts(RawList("icmp_ranges"))
            /\ \/ ~PortsSubset(RawList("icmp_in_ranges"),
                               RawList("icmp_ranges"))
               \/ ~PortsSubset(RawList("icmp_out_ranges"),
                               RawList("icmp_ranges")))
               => range_ret.kind = "err"

\* the binding entries of external address X (IPv4): original direction
\* with a value of the family and to_addr = X, or reply direction with a key
\* of the family and from_addr = X
BindingsOf(X) ==
    {b \in map_binding :
        \/ b.orig /\ b.vfam = ADDR_IPV4 /\ b.to_addr = X
        \/ ~b.orig /\ b.kfam = ADDR_IPV4 /\ b.from_addr = X}

\* the CT entries of external address X (IPv4)
CtsOf(X) == {c \in map_ct : c.fam = ADDR_IPV4 /\ c.src_addr = X}

\* C30: a purge for external address X collects exactly the binding entries
\* of X present when it scans and deletes them, then collects exactly the CT
\* entries of X and deletes them; no other binding or CT entry is removed;
\* the CT map is scanned only after the binding part succeeded; when the
\* binding lookup or bulk delete fails the CT map is not touched and the
\* apply returns the error.
C30_PurgeFrame ==
    /\ [][(pc = "binding_scan" /\ pc' # pc) =>
            /\ map_binding' = map_binding
            /\ map_ct' = map_ct
            /\ IF res' = "ok" THEN to_delete' = BindingsOf(change[1].k.addr)
               ELSE pc' = "lower"]_vars
    /\ [][(pc = "binding_delete" /\ pc' # pc) =>
            /\ map_ct' = map_ct
            /\ map_binding' \subseteq map_binding
            /\ (map_binding \ map_binding') \subseteq to_delete
            /\ IF res' = "ok"
               THEN map_binding' = map_binding \ to_delete /\ pc' = "ct_scan"
               ELSE pc' = "lower"]_vars
    /\ [][(pc = "ct_scan" /\ pc' # pc) =>
            /\ map_binding' = map_binding
            /\ map_ct' = map_ct
            /\ to_delete' = CtsOf(change[1].k.addr)]_vars
    /\ [][(pc = "ct_delete" /\ pc' # pc) =>
            /\ map_binding' = map_binding
            /\ map_ct' \subseteq map_ct
            /\ (map_ct \ map_ct') \subseteq to_delete
            /\ res' = "ok" => map_ct' = map_ct \ to_delete]_vars
    /\ [][(pc' = "ct_scan" /\ pc # pc') =>
            /\ pc \in {"binding_scan", "binding_delete"}
            /\ res' = "ok"]_vars
    /\ [](pc = "idle" =>
            \A i \in 1..Len(trace) :
                (trace[i].op \in {"binding_scan", "binding_delete_batch"}
                    /\ ~trace[i].ok) =>
                    /\ ret = "err"
                    /\ \A j \in (i + 1)..Len(trace) :
                           trace[j].op \notin {"ct_scan", "ct_delete_batch"})

\* the bulk delete removed the binding entries of the purged address and the
\* CT entries of that address are still to be scanned
C30_Witness ==
    /\ pc = "ct_scan"
    /\ trace[Len(trace)] = Log("binding_delete_batch", change[1].k, TRUE)
    /\ BindingsOf(change[1].k.addr) = {}
    /\ CtsOf(change[1].k.addr) # {}

\* the list of an External, the slots and the length byte of each protocol
ProtocolFields ==
    {<<"tcp_ranges", "tcp_range", "tcp_range_len">>,
     <<"udp_ranges", "udp_range", "udp_range_len">>,
     <<"icmp_ranges", "icmp_range", "icmp_range_len">>,
     <<"icmp_in_ranges", "icmp_in_range", "icmp_in_range_len">>,
     <<"icmp_out_ranges", "icmp_out_range", "icmp_out_range_len">>}

\* C24 (as claimed): in every external_config entry with NO_SNAT cleared, for
\* each of the five protocols the length byte is the number of ranges of the
\* External's list and at most MAX_PORT_RANGES, the slots below it hold those
\* ranges in order, sorted, pairwise non-overlapping and non-adjacent, and
\* the slots from it on are (0, 0).
C24_RangeArrays ==
    daemon = "builder" =>
        \A k \in DOMAIN runtime_v4_config.external_config :
            LET v == runtime_v4_config.external_config[k]
                external == LastMatching(k.addr)
            IN ~v.no_snat =>
                \A f \in ProtocolFields :
                    LET len == v[f[3]] IN
                    /\ len = Len(external[f[1]])
                    /\ len <= MAX_PORT_RANGES
                    /\ \A i \in 1..MAX_PORT_RANGES :
                           v[f[2]][i] = IF i <= len THEN external[f[1]][i]
                                        ELSE <<0, 0>>
                    /\ IsNormalized(SubSeq(v[f[2]], 1, len))

\* a range of the list ends at port 65535 and another non-empty range of
\* the list does not start before it
FollowedLastPort(ranges) ==
    \E i, j \in 1..Len(ranges) :
        /\ i # j
        /\ ~IsEmptyRange(ranges[i]) /\ ~IsEmptyRange(ranges[j])
        /\ ranges[i][2] = U16 - 1
        /\ ranges[i][1] <= ranges[j][1]

\* C34 (as claimed): sort_and_merge_ranges computes curr.end() + 1 without
\* overflow for every input: when a range ends at port 65535 and is followed
\* in lo order by another non-empty range, the function neither panics nor
\* wraps, and the later range is merged into the one ending at 65535.
C34_NoOverflow ==
    Returned("sort_and_merge_ranges") =>
        /\ range_ret.kind # "panic"
        /\ FollowedLastPort(range_call.ranges) =>
               \A k \in 1..Len(range_ret.ranges) :
                   range_ret.ranges[k][2] = U16 - 1
                       => k = Len(range_ret.ranges)

\* C33 (as claimed): in every configuration the Builder produces, for any
\* list of Externals, several of which may name one address, external_addr
\* is the unspecified host prefix or a key of external_config whose entry
\* has NO_SNAT cleared.
C33_ExternalAddrSnat ==
    daemon = "builder" =>
        \/ runtime_v4_config.external_addr = FromAddr(Unspecified)
        \/ /\ runtime_v4_config.external_addr
                  \in DOMAIN runtime_v4_config.external_config
           /\ ~runtime_v4_config.external_config[
                   runtime_v4_config.external_addr].no_snat

\* C32 (as claimed): at every state after load in which the quiescence flag
\* is 0, the primary-external scalar is the unspecified address or names a
\* key present in the kernel external_config map, also between the guarded
\* Delete of the old primary address and the scalar rewrite at the end of
\* the same apply.
C32_ScalarNamesKey ==
    (inst = "loaded" /\ g_deleting_map_entries = 0) =>
        \/ g_ipv4_external_addr = Unspecified
        \/ FromAddr(g_ipv4_external_addr) \in DOMAIN map_external_config

\* the log entries of dest-config changes
DestOps == {"dest_update", "dest_delete"}

\* the step issues a kernel operation of apply and logs it
Logged == Len(trace') = Len(trace) + 1

\* a raise at position i of the log is not lowered before position j
OpenFrom(t, i, j) ==
    /\ i < j
    /\ t[i].op = "raise"
    /\ \A m \in (i + 1)..(j - 1) : t[m].op # "lower"

\* C31: in every apply, first or diff, every dest-config change precedes the
\* first external-config change; a dest-config change leaves the quiescence
\* flag at 0 and removes no binding or CT entry; a guarded region is closed
\* before the next one opens, and the operations of an open region modify
\* nothing but the external-config entry of the region's key and the binding
\* and CT entries of that key's address.
C31_DestFirstOneRegion ==
    /\ [](\A i, j \in 1..Len(trace) :
              (trace[i].op \in DestOps /\ trace[j].op \notin DestOps) => i < j)
    /\ [](\A i, j \in 1..Len(trace) :
              OpenFrom(trace, i, j) =>
                  /\ trace[j].op \in InsideOps
                  /\ trace[j].k = trace[i].k)
    /\ [][(Logged /\ trace'[Len(trace')].op \in DestOps) =>
              /\ g_deleting_map_entries = 0 /\ g_deleting_map_entries' = 0
              /\ ~EntryDeleted
              /\ map_external_config' = map_external_config
              /\ (ext_changes = ExternalChanges(old, new) /\ ext_changes' = ext_changes)]_vars
    /\ [][(Logged /\ change # <<>>) =>
              /\ trace'[Len(trace')].k = change[1].k
              /\ map_dest_config' = map_dest_config
              /\ g_ipv4_external_addr' = g_ipv4_external_addr
              /\ \A k \in (DOMAIN map_external_config \cup DOMAIN map_external_config')
                            \ {change[1].k} :
                     /\ k \in DOMAIN map_external_config
                     /\ k \in DOMAIN map_external_config'
                     /\ map_external_config'[k] = map_external_config[k]
              /\ map_binding' \subseteq map_binding
              /\ map_ct' \subseteq map_ct
              /\ ((map_binding \ map_binding') \cup (map_ct \ map_ct'))
                     \subseteq EntriesOf(change[1].k.addr)]_vars

\* C31 witness: a diff apply has applied a dest-config change, then closed
\* the guarded region of one external-config key, in which it removed an
\* entry, and opened the region of another key.
C31_Witness ==
    /\ old # <<>>
    /\ \E d, i, m, j \in 1..Len(trace) :
           /\ trace[d].op \in DestOps
           /\ trace[i].op = "raise" /\ trace[j].op = "raise"
           /\ i < m /\ m < j
           /\ trace[m].op \in {"binding_delete_batch", "ct_delete_batch"} /\ trace[m].ok
           /\ trace[i].k # trace[j].k

====
